---- MODULE Spec2Model ----
(***************************************************************************)
(* Event pipeline of the k3s-kafka demo: content-service publishes domain  *)
(* events to the Kafka topic content-events (the Publisher), and           *)
(* analytics-service consumes them into an in-memory Event Log and serves  *)
(* queries over it (the Consumer).                                         *)
(*                                                                         *)
(* JavaScript values are modelled as follows.  A string is a TLA+ string;  *)
(* the two tokens Undefined and Null stand for the values undefined and    *)
(* null where the code stores them next to strings.  The text of a query   *)
(* parameter that the code parses (limit) is a sequence of one-character   *)
(* strings.  A number that may be NaN is a record [nan, n].  A value kept  *)
(* in a plain object used as a map (bySource, byAction) is a tagged        *)
(* record [t |-> "number", n |-> ..] or [t |-> "string", s |-> ..].        *)
(***************************************************************************)
EXTENDS Integers, Sequences, FiniteSets, TLC

VARIABLES
    \* analytics-service (the Consumer)
    events,             \* const events = []
    consumerConnected,  \* let consumerConnected
    messagesConsumed,   \* let messagesConsumed
    consumerPc,         \* where startConsumer() stands
    delivered,          \* history: the messages handed to eachMessage, in order
    request,            \* the HTTP request analytics-service is answering
    response,           \* and its response
    \* content-service (the Publisher)
    kafkaReady,         \* let kafkaReady
    producerPc,         \* where connectKafka() stands
    listening,          \* app.listen has been called
    contentItems,       \* let contentItems
    calls,              \* history: the calls of trackEvent, in order
    pubRequest,         \* the HTTP request content-service is answering
    pubResponse,        \* and its response
    \* the broker
    inflight,           \* producer.send calls the broker has not answered yet
    partitionLog,       \* the records of the topic's partition, in offset order
    \* a second run of content-service that gets the same requests
    kafkaReadyB, producerPcB, listeningB, contentItemsB, pubResponseB,
    \* the environment of both services
    brokerUp,           \* the broker can be reached
    consumerProc,       \* the process of analytics-service: where shutdown() stands
    publisherProc,      \* the process of content-service: where shutdown() stands
    \* the connect loops
    pubAttempts,        \* calls of connectKafka() that have not returned
    pubTimers,          \* pending setTimeout(connectKafka, 5000)
    consAttempts,       \* calls of startConsumer() that have not returned
    consTimers,         \* pending setTimeout(startConsumer, 5000)
    \* auth-service
    authRequest,        \* the HTTP request auth-service is answering
    authResponse,       \* and its response
    \* the deployment scripts
    teardown,           \* a run of teardown.sh: its variables, the cluster, the commands run
    deploy              \* a run of deploy.sh: its variables, the files, the releases deployed

consumerVars == <<events, consumerConnected, messagesConsumed, consumerPc, delivered>>
exchangeVars == <<request, response>>
publisherVars == <<kafkaReady, producerPc, listening, contentItems, calls>>
pubExchangeVars == <<pubRequest, pubResponse>>
brokerVars == <<inflight, partitionLog>>
pairVars == <<kafkaReadyB, producerPcB, listeningB, contentItemsB, pubResponseB>>
procVars == <<brokerUp, consumerProc, publisherProc>>
loopVars == <<pubAttempts, pubTimers, consAttempts, consTimers>>
authVars == <<authRequest, authResponse>>
otherVars == <<authVars, teardown, deploy>>
lifeVars == <<procVars, loopVars, otherVars>>

vars ==
    <<consumerVars, exchangeVars, publisherVars, pubExchangeVars, brokerVars, pairVars,
      lifeVars>>

(***************************************************************************)
(* Bounds of the model.                                                    *)
(***************************************************************************)
\* deliveries with a freely chosen message
MaxDelivered == 3
\* deliveries in all, the later ones following BulkMessage
MaxLong == 52
\* calls of trackEvent
MaxCalls == 2
\* records written to the topic by other producers
MaxForeign == 1

(***************************************************************************)
(* JavaScript values.                                                      *)
(***************************************************************************)
Undefined == "<undefined>"
Null == "<null>"

\* ToBoolean on the string-like values of the model
Falsy(v) == v \in {Undefined, Null, ""}

\* v || d
OrElse(v, d) == IF Falsy(v) THEN d ELSE v

Last(seq) == seq[Len(seq)]

Min(a, b) == IF a < b THEN a ELSE b
Max(a, b) == IF a > b THEN a ELSE b

RECURSIVE PadStart(_, _, _)
\* String.prototype.padStart(n, c) for a one-character c
PadStart(s, n, c) == IF Len(s) >= n THEN s ELSE PadStart(c \o s, n, c)

(***************************************************************************)
(* JSON text and JSON.parse.  The text of an object is the sequence of its *)
(* key/value pairs as written; parsing it gives the object whose property  *)
(* k is the value of the last pair with key k.  A text that is not JSON    *)
(* makes JSON.parse throw; null and a number parse to no object.           *)
(***************************************************************************)
NotJson == [kind |-> "text"]
JsonNull == [kind |-> "null"]
JsonNumber == [kind |-> "number"]
JsonObject(pairs) == [kind |-> "object", pairs |-> pairs]
\* message.value === null (a tombstone record)
NoValue == [kind |-> "none"]

\* JSON.parse(raw): [threw |-> TRUE] or the parsed value
JSONParse(raw) ==
    CASE raw.kind = "object" -> [threw |-> FALSE, t |-> "object", props |-> raw.pairs]
      [] raw.kind = "null" -> [threw |-> FALSE, t |-> "null", props |-> <<>>]
      [] raw.kind = "number" -> [threw |-> FALSE, t |-> "number", props |-> <<>>]
      [] OTHER -> [threw |-> TRUE, t |-> "none", props |-> <<>>]

\* payload.k for the keys the consumer reads (none of them is inherited): the
\* value of the last pair of the text with key k, undefined when there is none
Prop(payload, k) ==
    LET hits == SelectSeq(payload.props, LAMBDA kv : kv[1] = k)
    IN IF hits = <<>> THEN Undefined ELSE Last(hits)[2]

(***************************************************************************)
(* analytics-service: the eachMessage callback.                            *)
(***************************************************************************)
KAFKA_TOPIC == "content-events"

\* new Date().toISOString(): the wall clock is not modelled
Now == "now"

\* `E${String(events.length + 1).padStart(5, '0')}`, n = events.length
EventIdOffByOne(n) == "E" \o PadStart(ToString(n), 5, "0")
EventId(n) == "E" \o PadStart(ToString(n + 1), 5, "0")

\* the body of the try block throws: message.value.toString() on null,
\* JSON.parse on a text that is not JSON, payload.source on null
Throws(message) ==
    \/ message.value.kind = "none"
    \/ JSONParse(message.value).threw
    \/ JSONParse(message.value).t = "null"

MakeEvent(n, topic, partition, message) ==
    LET payload == JSONParse(message.value)
    IN [id |-> EventId(n),
        source |-> OrElse(Prop(payload, "source"), "unknown"),
        action |-> OrElse(Prop(payload, "action"), "unknown"),
        itemId |-> OrElse(Prop(payload, "itemId"), Null),
        ts |-> OrElse(Prop(payload, "ts"), Now),
        receivedAt |-> Now,
        kafka |-> [topic |-> topic, partition |-> partition, offset |-> message.offset,
                   key |-> IF message.key # Null THEN message.key ELSE Null]]

\* events.push(event)
Unshift(arr, e) == <<e>> \o arr
PushEvicting(arr, e) == IF Len(arr) >= 2 THEN Append(Tail(arr), e) ELSE Append(arr, e)
Push(arr, e) == Append(arr, e)

\* The callback on the consumer's state st = [events, messagesConsumed,
\* consumerConnected]; the catch block only logs.
EachMessageCountsAll(st, topic, partition, message) ==
    IF Throws(message)
    THEN [st EXCEPT !.messagesConsumed = @ + 1, !.consumerConnected = FALSE]
    ELSE [st EXCEPT !.events = Push(@, MakeEvent(Len(@), topic, partition, message)),
                    !.messagesConsumed = @ + 1]
EachMessageDedups(st, topic, partition, message) ==
    IF Throws(message)
    THEN st
    ELSE IF \E k \in 1..Len(st.events) :
                st.events[k].kafka = MakeEvent(0, topic, partition, message).kafka
    THEN st
    ELSE [st EXCEPT !.events = Push(@, MakeEvent(Len(@), topic, partition, message)),
                    !.messagesConsumed = @ + 1]
EachMessageCountsSkipped(st, topic, partition, message) ==
    IF Throws(message)
    THEN [st EXCEPT !.messagesConsumed = @ + 1]
    ELSE [st EXCEPT !.events = Push(@, MakeEvent(Len(@), topic, partition, message)),
                    !.messagesConsumed = @ + 1]
EachMessageHandler(st, topic, partition, message) ==
    IF Throws(message)
    THEN st
    ELSE [st EXCEPT !.events = Push(@, MakeEvent(Len(@), topic, partition, message)),
                    !.messagesConsumed = @ + 1]

ConsumerState ==
    [events |-> events, messagesConsumed |-> messagesConsumed,
     consumerConnected |-> consumerConnected]

(***************************************************************************)
(* The messages the broker may deliver: events of content-service, events  *)
(* of other producers, and records that are no event at all (verify-       *)
(* kafka.sh writes a plain line of text to the topic).                     *)
(***************************************************************************)
CreateValue ==
    JsonObject(<< <<"source", "content-service">>, <<"action", "create">>,
                  <<"itemId", "C005">>, <<"ts", "t1">> >>)
DeleteValue ==
    JsonObject(<< <<"source", "content-service">>, <<"action", "delete">>,
                  <<"itemId", "C005">>, <<"ts", "t2">> >>)
ForeignValue ==
    JsonObject(<< <<"source", "constructor">>, <<"action", "">>, <<"itemId", Null>> >>)

Deliveries ==
    {[key |-> "C005", value |-> CreateValue],
     [key |-> "C005", value |-> DeleteValue],
     [key |-> Null, value |-> ForeignValue],
     [key |-> Null, value |-> NotJson],
     [key |-> "C005", value |-> NoValue],
     [key |-> Null, value |-> JsonNull],
     [key |-> Null, value |-> JsonNumber]}

\* the i-th delivery of a long run
BulkMessage(i) ==
    IF i % 2 = 1 THEN [key |-> "C005", value |-> CreateValue]
    ELSE [key |-> "C005", value |-> DeleteValue]

(***************************************************************************)
(* analytics-service: GET /events.                                         *)
(***************************************************************************)
DigitChars == <<"0", "1", "2", "3", "4", "5", "6", "7", "8", "9">>
IsDigit(c) == \E d \in 1..10 : DigitChars[d] = c
DigitValue(c) == (CHOOSE d \in 1..10 : DigitChars[d] = c) - 1

RECURSIVE ParseDigits(_, _, _, _)
\* the digits of s from position i on, up to the first character that is none
ParseDigits(s, i, acc, any) ==
    IF i > Len(s) \/ ~IsDigit(s[i])
    THEN [nan |-> ~any, n |-> IF any THEN acc ELSE 0]
    ELSE ParseDigits(s, i + 1, acc * 10 + DigitValue(s[i]), TRUE)

RECURSIVE TrimStart(_)
TrimStart(s) == IF s # <<>> /\ s[1] = " " THEN TrimStart(Tail(s)) ELSE s

\* parseInt(s, 10): leading blanks, an optional sign, then digits; NaN without digits
ParseInt(s) ==
    LET t == TrimStart(s)
        signed == t # <<>> /\ t[1] \in {"-", "+"}
        r == ParseDigits(IF signed THEN Tail(t) ELSE t, 1, 0, FALSE)
    IN IF signed /\ t[1] = "-" THEN [nan |-> r.nan, n |-> 0 - r.n] ELSE r

\* unary minus
Negate(x) == [nan |-> x.nan, n |-> 0 - x.n]

\* Array.prototype.slice(start): NaN counts as 0, a negative start counts from the end
Slice(arr, start) ==
    LET len == Len(arr)
        rel == IF start.nan THEN 0 ELSE start.n
        k == IF rel < 0 THEN Max(len + rel, 0) ELSE Min(rel, len)
    IN SubSeq(arr, k + 1, len)

\* req.query: the parameters that are present, each with its text
HasParam(query, name) == name \in DOMAIN query

\* `if (source) result = result.filter(e => e.source === source)`
FilterBy(result, query, name) ==
    IF HasParam(query, name) /\ ~Falsy(query[name])
    THEN SelectSeq(result, LAMBDA e : e[name] = query[name])
    ELSE result

\* the '50' of `parseInt(limit || '50', 10)`
DefaultLimit == <<"5", "0">>

\* `limit || '50'`
LimitText(query) ==
    IF HasParam(query, "limit") /\ query.limit # <<>> THEN query.limit ELSE DefaultLimit

SliceFromFront(result, max) == SubSeq(result, 1, Min(Len(result), Max(max.n, 0)))
SliceLast(result, max) == Slice(result, Negate(max))

GetEvents(log, query) ==
    LET bySource == FilterBy(log, query, "source")
        byAction == FilterBy(bySource, query, "action")
        max == ParseInt(LimitText(query))
        result == SliceLast(byAction, max)
    IN [status |-> 200,
        body |-> [total |-> Len(log), returned |-> Len(result), events |-> result]]

(***************************************************************************)
(* analytics-service: GET /stats.  bySource and byAction are plain objects *)
(* ({}), so a lookup of a key that is not an own property falls through to *)
(* Object.prototype.                                                       *)
(***************************************************************************)
Num(n) == [t |-> "number", n |-> n]
Str(s) == [t |-> "string", s |-> s]

\* names every object inherits from Object.prototype
InheritedKeys ==
    {"constructor", "toString", "toLocaleString", "valueOf", "hasOwnProperty",
     "isPrototypeOf", "propertyIsEnumerable", "__proto__"}

\* obj[k]
Get(obj, k) ==
    IF k \in DOMAIN obj THEN obj[k]
    ELSE IF k \in InheritedKeys THEN [t |-> "object", s |-> "[inherited " \o k \o "]"]
    ELSE [t |-> "undefined"]

\* obj[k] = v: the __proto__ setter ignores a value that is no object
Set(obj, k, v) ==
    IF k = "__proto__" THEN obj
    ELSE [x \in DOMAIN obj \cup {k} |-> IF x = k THEN v ELSE obj[x]]

\* (v || 0) + 1: addition on numbers, concatenation on anything else
OrZeroAlwaysOne(v) == Num(1)
OrZeroPlusOne(v) ==
    IF v.t = "undefined" \/ (v.t = "number" /\ v.n = 0) \/ (v.t = "string" /\ v.s = "")
    THEN Num(1)
    ELSE IF v.t = "number" THEN Num(v.n + 1)
    ELSE Str(v.s \o "1")

RECURSIVE CountInto(_, _, _)
\* log.forEach(e => { by[e[field]] = (by[e[field]] || 0) + 1 }) on the object
\* by: the elements are visited in order, those of the first half of log
\* before those of the second half
CountInto(by, log, field) ==
    IF log = <<>> THEN by
    ELSE IF Len(log) = 1
    THEN LET k == log[1][field] IN Set(by, k, OrZeroPlusOne(Get(by, k)))
    ELSE LET h == Len(log) \div 2
         IN CHOOSE r \in {CountInto(mid, SubSeq(log, h + 1, Len(log)), field) :
                            mid \in {CountInto(by, SubSeq(log, 1, h), field)}} : TRUE

\* const by = {}; events.forEach(e => { by[e[field]] = (by[e[field]] || 0) + 1 })
CountBy(log, field) == CountInto(<<>>, log, field)

GetStats(st) ==
    [status |-> 200,
     body |-> [totalEvents |-> Len(st.events),
               messagesConsumed |-> st.messagesConsumed,
               kafka |-> [connected |-> st.consumerConnected],
               bySource |-> CountBy(st.events, "source"),
               byAction |-> CountBy(st.events, "action")]]

(***************************************************************************)
(* analytics-service: GET /health, GET /kafka-status, GET / and the        *)
(* dispatch of a request to its handler.  A handler gets the state of the  *)
(* service and gives the state it leaves and the response.                 *)
(***************************************************************************)
ENV == "local"
ANALYTICS == "analytics-service"
KAFKA_GROUP_ID == "analytics-consumers"

GetHealthCoupled(st) ==
    [status |-> IF st.consumerConnected THEN 200 ELSE 503,
     body |-> [status |-> IF st.consumerConnected THEN "ok" ELSE "unavailable",
               service |-> ANALYTICS, env |-> ENV,
               kafka |-> IF st.consumerConnected THEN "connected" ELSE "reconnecting"]]
GetHealth(st) ==
    [status |-> 200,
     body |-> [status |-> "ok", service |-> ANALYTICS, env |-> ENV,
               kafka |-> IF st.consumerConnected THEN "connected" ELSE "reconnecting"]]

GetKafkaStatus(st) ==
    [status |-> 200,
     body |-> [service |-> ANALYTICS,
               kafka |-> [connected |-> st.consumerConnected, topic |-> KAFKA_TOPIC,
                          groupId |-> KAFKA_GROUP_ID,
                          messagesConsumed |-> st.messagesConsumed,
                          eventsStored |-> Len(st.events)]]]

GetRoot(st) ==
    [status |-> 200,
     body |-> [message |-> "Hello from " \o ANALYTICS \o "!", env |-> ENV,
               kafka |-> [connected |-> st.consumerConnected, topic |-> KAFKA_TOPIC,
                          groupId |-> KAFKA_GROUP_ID,
                          messagesConsumed |-> st.messagesConsumed]]]

\* The handler of req on the state st.  GET /events works on the copy
\* [...events] with filter and slice, which build new arrays; no handler
\* assigns events, messagesConsumed or consumerConnected.
ServeCounting(st, req) ==
    [st |-> [st EXCEPT !.messagesConsumed = @ + 1], response |-> GetHealth(st)]
Serve(st, req) ==
    [st |-> st,
     response |-> CASE req.path = "/events" -> GetEvents(st.events, req.query)
                    [] req.path = "/stats" -> GetStats(st)
                    [] req.path = "/health" -> GetHealth(st)
                    [] req.path = "/kafka-status" -> GetKafkaStatus(st)
                    [] req.path = "/" -> GetRoot(st)]

(***************************************************************************)
(* The requests tried on GET /events.                                      *)
(***************************************************************************)
QuerySources == {"content-service", "constructor", ""}
QueryActions == {"create", "delete"}
RECURSIVE Decimal(_)
\* the decimal text of an integer, as a client writes it into the query string
Decimal(n) ==
    IF n < 0 THEN <<"-">> \o Decimal(0 - n)
    ELSE IF n < 10 THEN <<DigitChars[n + 1]>>
    ELSE Decimal(n \div 10) \o <<DigitChars[(n % 10) + 1]>>

LimitNumbers == {-1, 0, 2, 51}
QueryLimits == {Decimal(n) : n \in LimitNumbers} \cup {<<"x">>}

\* the record with the fields of f and of g
Merge(f, g) == [x \in DOMAIN f \cup DOMAIN g |-> IF x \in DOMAIN g THEN g[x] ELSE f[x]]

Queries ==
    LET S == {<<>>} \cup {[source |-> s] : s \in QuerySources}
        A == {<<>>} \cup {[action |-> a] : a \in QueryActions}
        L == {<<>>} \cup {[limit |-> l] : l \in QueryLimits}
    IN {Merge(Merge(s, a), l) : s \in S, a \in A, l \in L}

(***************************************************************************)
(* content-service: trackEvent.  An object is the sequence of its          *)
(* key/value pairs in insertion order; JSON.stringify writes them in that  *)
(* order and leaves out the properties whose value is undefined.           *)
(***************************************************************************)
SERVICE == "content-service"
Hostname == "host"

\* the position of key k in the pairs, 0 when it has none
IndexOfKey(pairs, k) ==
    IF \E i \in 1..Len(pairs) : pairs[i][1] = k
    THEN CHOOSE i \in 1..Len(pairs) : pairs[i][1] = k
    ELSE 0

RECURSIVE Spread(_, _)
\* { ...obj, ...extra }: a key of extra replaces the value in place or is added
Spread(obj, extra) ==
    IF extra = <<>> THEN obj
    ELSE LET kv == Head(extra)
             at == IndexOfKey(obj, kv[1])
         IN Spread(IF at = 0 THEN Append(obj, kv) ELSE [obj EXCEPT ![at] = kv], Tail(extra))

JSONStringify(obj) == JsonObject(SelectSeq(obj, LAMBDA kv : kv[2] # Undefined))

\* the event object of lines 59-67
BuildEventNoItem(action, itemId, extra) ==
    Spread(<< <<"source", SERVICE>>, <<"action", action>>, <<"ts", Now>>,
              <<"env", ENV>>, <<"hostname", Hostname>> >>, extra)
BuildEvent(action, itemId, extra) ==
    Spread(<< <<"source", SERVICE>>, <<"action", action>>,
              <<"itemId", OrElse(itemId, Null)>>, <<"ts", Now>>,
              <<"env", ENV>>, <<"hostname", Hostname>> >>, extra)

\* the message of lines 72-76
BuildMessage(action, itemId, extra) ==
    [key |-> OrElse(itemId, action),
     value |-> JSONStringify(BuildEvent(action, itemId, extra)),
     headers |-> [source |-> SERVICE, env |-> ENV]]

\* The messages trackEvent hands to producer.send when it is called: none
\* when kafkaReady is false (lines 55-58), one otherwise.
TrackEventAlwaysSubmits(ready, action, itemId, extra) ==
    <<BuildMessage(action, itemId, extra)>>
TrackEventSubmits(ready, action, itemId, extra) ==
    IF ~ready THEN <<>> ELSE <<BuildMessage(action, itemId, extra)>>

\* How the promise of trackEvent settles once producer.send has settled: the
\* try completes or the catch block logs and completes.
SendSettledUncaught(outcome) == IF outcome = "rejected" THEN "rejected" ELSE "fulfilled"
SendSettled(outcome) == "fulfilled"

\* what the catch block of lines 80-82 submits again: nothing
ResendAfterFailure(message) == <<>>

(***************************************************************************)
(* content-service: the content store and its routes.                      *)
(***************************************************************************)
InitialItems ==
    << [id |-> "C001", title |-> "Welcome Banner", type |-> "image", status |-> "active",
        createdAt |-> "2025-01-15"],
       [id |-> "C002", title |-> "Product Showcase", type |-> "video", status |-> "active",
        createdAt |-> "2025-02-01"],
       [id |-> "C003", title |-> "Holiday Promo", type |-> "html", status |-> "draft",
        createdAt |-> "2025-03-10"],
       [id |-> "C004", title |-> "Digital Menu Board", type |-> "image", status |-> "archived",
        createdAt |-> "2024-11-20"] >>

\* new Date().toISOString().split('T')[0]
Today == "today"

\* contentItems.findIndex(i => i.id === id), 0 for -1
FindIndex(items, id) ==
    IF \E k \in 1..Len(items) : items[k].id = id
    THEN CHOOSE k \in 1..Len(items) :
            items[k].id = id /\ \A j \in 1..(k - 1) : items[j].id # id
    ELSE 0

\* contentItems.splice(idx, 1)
Splice(items, idx) == SubSeq(items, 1, idx - 1) \o SubSeq(items, idx + 1, Len(items))

\* `C${String(contentItems.length + 1).padStart(3, '0')}`
ItemId(items) == "C" \o PadStart(ToString(Len(items) + 1), 3, "0")

Tracked(action, itemId, extra) == [action |-> action, itemId |-> itemId, extra |-> extra]

\* GET /items/:id
GetItem(items, id) ==
    LET idx == FindIndex(items, id)
    IN IF idx = 0
       THEN [items |-> items, tracked |-> <<>>,
             response |-> [status |-> 404, body |-> [error |-> "Not found"]]]
       ELSE [items |-> items, tracked |-> <<Tracked("view", items[idx].id, <<>>)>>,
             response |-> [status |-> 200, body |-> [service |-> SERVICE, item |-> items[idx]]]]

PostItemUnchecked(items, body) ==
    LET item == [id |-> ItemId(items), title |-> body.title, type |-> body.type,
                 status |-> "draft", createdAt |-> Today]
    IN [items |-> Append(items, item),
        tracked |-> <<Tracked("create", item.id,
                              << <<"title", body.title>>, <<"type", body.type>> >>)>>,
        response |-> [status |-> 201, body |-> [service |-> SERVICE, item |-> item]]]

\* POST /items
PostItem(items, body) ==
    IF Falsy(body.title) \/ Falsy(body.type)
    THEN [items |-> items, tracked |-> <<>>,
          response |-> [status |-> 400, body |-> [error |-> "title and type required"]]]
    ELSE LET item == [id |-> ItemId(items), title |-> body.title, type |-> body.type,
                      status |-> "draft", createdAt |-> Today]
         IN [items |-> Append(items, item),
             tracked |-> <<Tracked("create", item.id,
                                   << <<"title", body.title>>, <<"type", body.type>> >>)>>,
             response |-> [status |-> 201, body |-> [service |-> SERVICE, item |-> item]]]

\* DELETE /items/:id
DeleteItem(items, id) ==
    LET idx == FindIndex(items, id)
    IN IF idx = 0
       THEN [items |-> items, tracked |-> <<>>,
             response |-> [status |-> 404, body |-> [error |-> "Not found"]]]
       ELSE [items |-> Splice(items, idx),
             tracked |-> <<Tracked("delete", items[idx].id, <<>>)>>,
             response |-> [status |-> 200,
                           body |-> [service |-> SERVICE, deleted |-> items[idx]]]]

Route(items, req) ==
    CASE req.route = "GET /items/:id" -> GetItem(items, req.id)
      [] req.route = "POST /items" -> PostItem(items, req.body)
      [] req.route = "DELETE /items/:id" -> DeleteItem(items, req.id)

\* A request handled by content-service whose kafkaReady is `ready`: the new
\* store, the response, and the messages trackEvent hands to producer.send.
\* The handler does not wait for trackEvent.
HandleRequestNeedsKafka(items, ready, req) ==
    LET r == Route(items, req)
    IN IF ~ready /\ r.tracked # <<>>
       THEN [items |-> items, tracked |-> <<>>, submits |-> <<>>,
             response |-> [status |-> 503, body |-> [error |-> "Kafka not ready"]]]
       ELSE [items |-> r.items, tracked |-> r.tracked, response |-> r.response,
             submits |-> IF r.tracked = <<>> THEN <<>>
                         ELSE TrackEventSubmits(ready, r.tracked[1].action,
                                                r.tracked[1].itemId, r.tracked[1].extra)]
HandleRequest(items, ready, req) ==
    LET r == Route(items, req)
    IN [items |-> r.items, tracked |-> r.tracked, response |-> r.response,
        submits |-> IF r.tracked = <<>> THEN <<>>
                    ELSE TrackEventSubmits(ready, r.tracked[1].action,
                                           r.tracked[1].itemId, r.tracked[1].extra)]

\* GET /health of content-service
PubGetHealthCoupled(ready) ==
    [status |-> IF ready THEN 200 ELSE 503,
     body |-> [status |-> IF ready THEN "ok" ELSE "unavailable", service |-> SERVICE,
               env |-> ENV, kafka |-> IF ready THEN "connected" ELSE "reconnecting"]]
PubGetHealth(ready) ==
    [status |-> 200,
     body |-> [status |-> "ok", service |-> SERVICE, env |-> ENV,
               kafka |-> IF ready THEN "connected" ELSE "reconnecting"]]

\* the requests tried on content-service
ContentRequests ==
    {[route |-> "GET /items/:id", id |-> i] : i \in {"C001", "C005"}}
    \cup {[route |-> "DELETE /items/:id", id |-> i] : i \in {"C001", "C005"}}
    \cup {[route |-> "POST /items", body |-> b] :
            b \in {[title |-> "Promo", type |-> "image"],
                   [title |-> "Promo", type |-> Undefined],
                   [title |-> Undefined, type |-> "image"]}}

(***************************************************************************)
(* auth-service: GET /validate.  The text of the Authorization header is   *)
(* the sequence of its pieces: the piece "Bearer ", the blank " ", and     *)
(* words that hold no blank and no "Bearer ".  USERS is a plain object, so *)
(* a lookup of a key that is not an own property falls through to          *)
(* Object.prototype.                                                       *)
(***************************************************************************)
AUTH == "auth-service"
Bearer == "Bearer "
Blank == " "

USERS ==
    [x \in {"user-001", "user-002", "user-003"} |->
        CASE x = "user-001" -> [id |-> "user-001", name |-> "Alice Manager", role |-> "admin",
                                email |-> "alice@example.com"]
          [] x = "user-002" -> [id |-> "user-002", name |-> "Bob Operator", role |-> "editor",
                                email |-> "bob@example.com"]
          [] x = "user-003" -> [id |-> "user-003", name |-> "Charlie Viewer", role |-> "viewer",
                                email |-> "charlie@example.com"]]

\* text.replace(piece, ''): the first occurrence of the piece is taken out
ReplaceFirst(text, piece) ==
    IF \E i \in 1..Len(text) : text[i] = piece
    THEN LET at == CHOOSE i \in 1..Len(text) :
                        text[i] = piece /\ \A j \in 1..(i - 1) : text[j] # piece
         IN SubSeq(text, 1, at - 1) \o SubSeq(text, at + 1, Len(text))
    ELSE text

\* text.trim(): the blanks at both ends are taken off
Trim(text) ==
    LET inked == {i \in 1..Len(text) : text[i] # Blank}
    IN IF inked = {} THEN <<>>
       ELSE SubSeq(text, CHOOSE i \in inked : \A j \in inked : i <= j,
                         CHOOSE i \in inked : \A j \in inked : i >= j)

RECURSIVE Join(_)
\* the string the pieces spell
Join(text) == IF text = <<>> THEN "" ELSE Head(text) \o Join(Tail(text))

\* USERS[token]
Lookup(token) ==
    IF token \in DOMAIN USERS THEN [t |-> "user", user |-> USERS[token]]
    ELSE IF token \in InheritedKeys THEN [t |-> "inherited", key |-> token]
    ELSE [t |-> "undefined"]

\* GET /validate; req.headers.authorization is undefined when the header is
\* missing.  res.json leaves out a user that is a function and writes
\* Object.prototype as {}.
Validate(req) ==
    LET authHeader == IF req.hasAuthorization THEN req.authorization ELSE <<>>
        token == Join(Trim(ReplaceFirst(authHeader, Bearer)))
        user == Lookup(token)
    IN IF token = "" \/ token = "none"
       THEN [status |-> 401, body |-> [valid |-> FALSE, error |-> "No token provided"]]
       ELSE IF user.t = "undefined"
       THEN [status |-> 401, body |-> [valid |-> FALSE, error |-> "Invalid token"]]
       ELSE [status |-> 200,
             body |-> [valid |-> TRUE, user |-> user, service |-> AUTH, hostname |-> Hostname]]

\* the tokens and the headers tried on GET /validate
AuthWords ==
    {"user-001", "user-002", "user-003", "user-004", "USER-001", "none", "constructor",
     "__proto__", "toString", ""}
AuthHeaders ==
    {pre \o lead \o (IF w = "" THEN <<>> ELSE <<w>>) \o trail :
        pre \in {<<>>, <<Bearer>>, <<Bearer, Bearer>>},
        lead \in {<<>>, <<Blank>>},
        w \in AuthWords,
        trail \in {<<>>, <<Blank>>}}
    \cup {<<"user-", Bearer, "001">>}
AuthRequests ==
    {[hasAuthorization |-> FALSE, authorization |-> <<>>]}
    \cup {[hasAuthorization |-> TRUE, authorization |-> h] : h \in AuthHeaders}

NoAuthRequest == [hasAuthorization |-> FALSE, authorization |-> <<"-">>]

(***************************************************************************)
(* teardown.sh.  A command line gives each option or leaves it out; the    *)
(* cluster says which namespaces exist, whether `helm status` finds the    *)
(* releases, whether Kafka left PVCs and whether deleting them succeeds.   *)
(* The script runs under set -euo pipefail.                                *)
(***************************************************************************)
ALL_SERVICES == <<"api-gateway", "content-service", "analytics-service", "auth-service">>
KAFKA_RELEASE_NAME == "kafka"

NotRun == [pc |-> "idle"]

\* the options of a command line: --env <env>, --service <name>, --kafka,
\* --all-envs, --confirm, --dry-run
TeardownCommandLines ==
    [env : {[given |-> FALSE, value |-> ""]}
           \cup {[given |-> TRUE, value |-> v] : v \in {"dev", "prod"}},
     service : {[given |-> FALSE, value |-> ""]}
               \cup {[given |-> TRUE, value |-> v] : v \in {"", "api-gateway"}},
     kafka : BOOLEAN, allEnvs : BOOLEAN, confirm : BOOLEAN, dryRun : BOOLEAN]

Clusters ==
    [namespaces : SUBSET {"dd-dev", "dd-prod"}, releases : BOOLEAN, pvcs : BOOLEAN,
     pvcDeleteOk : BOOLEAN]

\* the variables after the argument loop of lines 37-74
TeardownParse(cl) ==
    [TARGET_ENV |-> IF cl.env.given THEN cl.env.value ELSE "",
     TARGET_SERVICE |-> IF cl.service.given THEN cl.service.value ELSE "",
     REMOVE_KAFKA |-> cl.kafka, ALL_ENVS |-> cl.allEnvs, CONFIRM |-> cl.confirm,
     DRY_RUN |-> cl.dryRun]

Command(cmd, target, ns) == [cmd |-> cmd, target |-> target, ns |-> ns]
Ran(commands) == [commands |-> commands, aborted |-> FALSE]

\* helm_uninstall: a failing helm uninstall only prints a warning
helm_uninstall(v, cluster, release, ns) ==
    IF cluster.releases /\ ~v.DRY_RUN
    THEN Ran(<<Command("helm uninstall", release, ns)>>)
    ELSE Ran(<<>>)

\* delete_pvcs: a failing kubectl delete ends the script (set -e, pipefail)
delete_pvcs(v, cluster, ns) ==
    IF cluster.pvcs /\ ~v.DRY_RUN
    THEN [commands |-> <<Command("kubectl delete pvc", "kafka", ns)>>,
          aborted |-> ~cluster.pvcDeleteOk]
    ELSE Ran(<<>>)

delete_namespace(v, cluster, ns) ==
    IF ns \notin cluster.namespaces THEN Ran(<<>>)
    ELSE IF ~v.CONFIRM /\ ~v.DRY_RUN THEN Ran(<<>>)
    ELSE IF ~v.DRY_RUN THEN Ran(<<Command("kubectl delete namespace", ns, ns)>>)
    ELSE Ran(<<>>)

\* one step after another: the steps after one that aborted do not run
Then(a, b) ==
    IF a.aborted THEN a
    ELSE [commands |-> a.commands \o b.commands, aborted |-> b.aborted]

RECURSIVE UninstallAll(_, _, _, _)
\* for svc in "${ALL_SERVICES[@]}"; do helm_uninstall "$svc" "$ns"; done
UninstallAll(v, cluster, services, ns) ==
    IF services = <<>> THEN Ran(<<>>)
    ELSE Then(helm_uninstall(v, cluster, Head(services), ns),
              UninstallAll(v, cluster, Tail(services), ns))

teardown_env(v, cluster, env) ==
    LET ns == "dd-" \o env
    IN IF v.TARGET_SERVICE # ""
       THEN helm_uninstall(v, cluster, v.TARGET_SERVICE, ns)
       ELSE IF v.REMOVE_KAFKA
       THEN Then(delete_pvcs(v, cluster, ns), helm_uninstall(v, cluster, KAFKA_RELEASE_NAME, ns))
       ELSE Then(UninstallAll(v, cluster, ALL_SERVICES, ns),
            Then(delete_pvcs(v, cluster, ns),
            Then(helm_uninstall(v, cluster, KAFKA_RELEASE_NAME, ns),
                 delete_namespace(v, cluster, ns))))

(***************************************************************************)
(* deploy.sh.  The files say whether the directory of the environment      *)
(* exists and which components have a values file in it; failing names the *)
(* components whose helm upgrade fails.  The script runs under             *)
(* set -euo pipefail.                                                      *)
(***************************************************************************)
Components == <<KAFKA_RELEASE_NAME>> \o ALL_SERVICES
ComponentSet == {Components[i] : i \in 1..Len(Components)}

\* --env <env>, --service <name>, --all, --kafka, --dry-run
DeployCommandLines ==
    [env : {[given |-> FALSE, value |-> ""], [given |-> TRUE, value |-> "dev"]},
     service : {[given |-> FALSE, value |-> ""]}
               \cup {[given |-> TRUE, value |-> v] : v \in {"api-gateway", "auth-service"}},
     all : BOOLEAN, kafka : BOOLEAN, dryRun : BOOLEAN]

DeployFiles ==
    [envDir : BOOLEAN, values : SUBSET ComponentSet, failing : {{}, {"content-service"}}]

\* the variables after the argument loop of lines 37-62
DeployParse(cl) ==
    [TARGET_ENV |-> IF cl.env.given THEN cl.env.value ELSE "",
     TARGET_SERVICE |-> IF cl.service.given THEN cl.service.value ELSE "",
     DEPLOY_ALL |-> cl.all, DEPLOY_KAFKA |-> cl.kafka, DRY_RUN |-> cl.dryRun]

\* the checks of lines 65-82 pass
DeployValid(v, files) ==
    /\ v.TARGET_ENV # ""
    /\ v.DEPLOY_ALL \/ v.DEPLOY_KAFKA \/ v.TARGET_SERVICE # ""
    /\ files.envDir

\* the components lines 184-194 go through, in order
DeployPlan(v) ==
    IF v.DEPLOY_ALL THEN Components
    ELSE IF v.DEPLOY_KAFKA THEN <<KAFKA_RELEASE_NAME>>
    ELSE <<v.TARGET_SERVICE>>

\* deploy_kafka / deploy_service for one component: "skipped" is the return 1
\* of lines 126 and 167, "failed" a helm upgrade that fails, "deployed" the
\* return after helm upgrade --install
deploy_component(files, c) ==
    IF c \notin files.values THEN "skipped"
    ELSE IF c \in files.failing THEN "failed"
    ELSE "deployed"

\* what the shell does with the status of deploy_kafka or deploy_service,
\* called as a plain command: under set -e a status that is not 0 ends the
\* script with that status
AfterStatus(outcome) == IF outcome = "deployed" THEN "running" ELSE "exit1"

(***************************************************************************)
(* The start of both services.                                             *)
(***************************************************************************)
NoRequest == [path |-> "", query |-> <<>>]
NoResponse == [status |-> 0]
NoPubRequest == [route |-> ""]

Init ==
    /\ events = <<>>
    /\ consumerConnected = FALSE
    /\ messagesConsumed = 0
    /\ consumerPc = "connecting"      \* startConsumer() is called at start
    /\ delivered = <<>>
    /\ request = NoRequest
    /\ response = NoResponse
    /\ kafkaReady = FALSE
    /\ producerPc = "connecting"      \* connectKafka() is called at start
    /\ listening = FALSE
    /\ contentItems = InitialItems
    /\ calls = <<>>
    /\ pubRequest = NoPubRequest
    /\ pubResponse = NoResponse
    /\ inflight = <<>>
    /\ partitionLog = <<>>
    /\ kafkaReadyB = FALSE
    /\ producerPcB = "connecting"
    /\ listeningB = FALSE
    /\ contentItemsB = InitialItems
    /\ pubResponseB = NoResponse
    /\ brokerUp = TRUE
    /\ consumerProc = "up"
    /\ publisherProc = "up"
    /\ pubAttempts = 1
    /\ pubTimers = 0
    /\ consAttempts = 1
    /\ consTimers = 0
    /\ authRequest = NoAuthRequest
    /\ authResponse = NoResponse
    /\ teardown = NotRun
    /\ deploy = NotRun

\* A handler answers in the turn of the event loop that runs it, so no other
\* callback of the same process runs between a request and its response: the
\* exchange is kept in request and response (pubRequest and pubResponse)
\* until ResponseSent (PubResponseSent) ends it.  The broker and the other
\* service are other processes and do not wait for it.
ConsumerQuiet == request = NoRequest
PublisherQuiet == pubRequest = NoPubRequest

(***************************************************************************)
(* The Consumer as a state machine.                                        *)
(***************************************************************************)
ResponseSent ==
    /\ request # NoRequest
    /\ request' = NoRequest
    /\ response' = NoResponse
    /\ UNCHANGED <<consumerVars, publisherVars, pubExchangeVars, brokerVars, pairVars>>
    /\ UNCHANGED lifeVars

StartConsumerGivesUp ==
    /\ ConsumerQuiet
    /\ consumerPc \in {"connecting", "starting"}
    /\ consumerConnected' = FALSE
    /\ consumerPc' = "failed"
    /\ UNCHANGED <<events, messagesConsumed, delivered>>
    /\ UNCHANGED <<exchangeVars, publisherVars, pubExchangeVars, brokerVars, pairVars>>
    /\ UNCHANGED lifeVars

\* consumer.connect(), consumer.subscribe() or consumer.run() rejects: the
\* catch block of startConsumer
StartConsumerFails ==
    /\ ConsumerQuiet
    /\ consumerPc \in {"connecting", "starting"}
    /\ consumerConnected' = FALSE
    /\ consumerPc' = "timer"
    /\ UNCHANGED <<events, messagesConsumed, delivered>>
    /\ UNCHANGED <<exchangeVars, publisherVars, pubExchangeVars, brokerVars, pairVars>>
    /\ consAttempts > 0
    /\ consAttempts' = consAttempts - 1
    /\ consTimers' = consTimers + 1
    /\ UNCHANGED <<pubAttempts, pubTimers>>
    /\ UNCHANGED procVars
    /\ UNCHANGED otherVars

\* connect and subscribe resolve: consumerConnected = true, then consumer.run(..)
StartConsumerSubscribed ==
    /\ ConsumerQuiet
    /\ consumerPc = "connecting"
    /\ consumerConnected' = TRUE
    /\ consumerPc' = "starting"
    /\ UNCHANGED <<events, messagesConsumed, delivered>>
    /\ UNCHANGED <<exchangeVars, publisherVars, pubExchangeVars, brokerVars, pairVars>>
    /\ consAttempts > 0
    /\ UNCHANGED <<consAttempts, consTimers>>
    /\ UNCHANGED <<pubAttempts, pubTimers>>
    /\ UNCHANGED procVars
    /\ UNCHANGED otherVars

\* consumer.run(..) resolves: the fetch loop is running
StartConsumerRuns ==
    /\ ConsumerQuiet
    /\ consumerPc = "starting"
    /\ consumerPc' = "running"
    /\ UNCHANGED <<events, consumerConnected, messagesConsumed, delivered>>
    /\ UNCHANGED <<exchangeVars, publisherVars, pubExchangeVars, brokerVars, pairVars>>
    /\ consAttempts > 0
    /\ consAttempts' = consAttempts - 1
    /\ UNCHANGED consTimers
    /\ UNCHANGED <<pubAttempts, pubTimers>>
    /\ UNCHANGED procVars
    /\ UNCHANGED otherVars

RetryConsumerConnected ==
    /\ ConsumerQuiet
    /\ consumerPc = "timer"
    /\ consumerPc' = "starting"
    /\ consumerConnected' = TRUE
    /\ UNCHANGED <<events, messagesConsumed, delivered>>
    /\ UNCHANGED <<exchangeVars, publisherVars, pubExchangeVars, brokerVars, pairVars>>
    /\ UNCHANGED lifeVars

\* setTimeout(startConsumer, 5000) fires
RetryConsumer ==
    /\ ConsumerQuiet
    /\ consumerPc = "timer"
    /\ consumerPc' = "connecting"
    /\ UNCHANGED <<events, consumerConnected, messagesConsumed, delivered>>
    /\ UNCHANGED <<exchangeVars, publisherVars, pubExchangeVars, brokerVars, pairVars>>
    /\ consTimers > 0
    /\ consTimers' = consTimers - 1
    /\ consAttempts' = consAttempts + 1
    /\ UNCHANGED <<pubAttempts, pubTimers>>
    /\ UNCHANGED procVars
    /\ UNCHANGED otherVars

\* the next record of the partition as eachMessage gets it; its offset is its
\* position in the partition
NextMessage(m) == [key |-> m.key, value |-> m.value, offset |-> ToString(Len(delivered))]

\* eachMessage({ topic, partition, message }) runs for the record m
Deliver(m) ==
    /\ \E message \in {NextMessage(m)} :
        /\ \E st \in {EachMessageHandler(ConsumerState, KAFKA_TOPIC, 0, message)} :
            /\ events' = st.events
            /\ messagesConsumed' = st.messagesConsumed
            /\ consumerConnected' = st.consumerConnected
        /\ delivered' = Append(delivered, message)
    /\ UNCHANGED consumerPc

\* the broker delivers the next record of a partition that any producer writes
EachMessage ==
    /\ ConsumerQuiet
    /\ consumerPc = "running"
    /\ \E m \in Deliveries :
        /\ \/ Len(delivered) < MaxDelivered
           \/ /\ Len(delivered) < MaxLong
              /\ m = BulkMessage(Len(delivered) + 1)
              /\ \A i \in 1..Len(delivered) : delivered[i].value = BulkMessage(i).value
        /\ Deliver(m)
    /\ UNCHANGED <<exchangeVars, publisherVars, pubExchangeVars, brokerVars, pairVars>>
    /\ UNCHANGED lifeVars

\* analytics-service runs the handler of req
Answer(req) ==
    /\ \E r \in {Serve(ConsumerState, req)} :
        /\ events' = r.st.events
        /\ messagesConsumed' = r.st.messagesConsumed
        /\ consumerConnected' = r.st.consumerConnected
        /\ request' = req
        /\ response' = r.response
    /\ UNCHANGED <<consumerPc, delivered>>

HandleGetEvents ==
    /\ ConsumerQuiet
    /\ \E q \in Queries : Answer([path |-> "/events", query |-> q])
    /\ UNCHANGED <<publisherVars, pubExchangeVars, brokerVars, pairVars>>
    /\ UNCHANGED lifeVars

HandleGetStats ==
    /\ ConsumerQuiet
    /\ Answer([path |-> "/stats", query |-> <<>>])
    /\ UNCHANGED <<publisherVars, pubExchangeVars, brokerVars, pairVars>>
    /\ UNCHANGED lifeVars

HandleGetHealth ==
    /\ ConsumerQuiet
    /\ Answer([path |-> "/health", query |-> <<>>])
    /\ UNCHANGED <<publisherVars, pubExchangeVars, brokerVars, pairVars>>
    /\ UNCHANGED lifeVars

HandleGetKafkaStatus ==
    /\ ConsumerQuiet
    /\ Answer([path |-> "/kafka-status", query |-> <<>>])
    /\ UNCHANGED <<publisherVars, pubExchangeVars, brokerVars, pairVars>>
    /\ UNCHANGED lifeVars

HandleGetRoot ==
    /\ ConsumerQuiet
    /\ Answer([path |-> "/", query |-> <<>>])
    /\ UNCHANGED <<publisherVars, pubExchangeVars, brokerVars, pairVars>>
    /\ UNCHANGED lifeVars

Next ==
    \/ StartConsumerFails
    \/ StartConsumerSubscribed
    \/ StartConsumerRuns
    \/ RetryConsumer
    \/ EachMessage
    \/ HandleGetEvents
    \/ HandleGetStats
    \/ HandleGetHealth
    \/ HandleGetKafkaStatus
    \/ HandleGetRoot
    \/ ResponseSent

Spec == Init /\ [][Next]_vars

(***************************************************************************)
(* The Publisher, the broker and the Consumer together.                    *)
(***************************************************************************)
PubResponseSent ==
    /\ pubRequest # NoPubRequest
    /\ pubRequest' = NoPubRequest
    /\ pubResponse' = NoResponse
    /\ pubResponseB' = NoResponse
    /\ UNCHANGED <<kafkaReadyB, producerPcB, listeningB, contentItemsB>>
    /\ UNCHANGED <<consumerVars, exchangeVars, publisherVars, brokerVars>>
    /\ UNCHANGED lifeVars

\* producer.connect() resolves; connectKafka() returns and app.listen is called
ConnectKafkaOk ==
    /\ PublisherQuiet
    /\ producerPc = "connecting"
    /\ kafkaReady' = TRUE
    /\ producerPc' = "connected"
    /\ listening' = TRUE
    /\ UNCHANGED <<contentItems, calls>>
    /\ UNCHANGED <<consumerVars, exchangeVars, pubExchangeVars, brokerVars, pairVars>>
    /\ pubAttempts > 0
    /\ pubAttempts' = pubAttempts - 1
    /\ UNCHANGED pubTimers
    /\ UNCHANGED <<consAttempts, consTimers>>
    /\ UNCHANGED procVars
    /\ UNCHANGED otherVars

ConnectKafkaGivesUp ==
    /\ PublisherQuiet
    /\ producerPc = "connecting"
    /\ producerPc' = "failed"
    /\ listening' = TRUE
    /\ UNCHANGED <<kafkaReady, contentItems, calls>>
    /\ UNCHANGED <<consumerVars, exchangeVars, pubExchangeVars, brokerVars, pairVars>>
    /\ UNCHANGED lifeVars

\* producer.connect() rejects: the catch block sets the timer; connectKafka()
\* returns and app.listen is called
ConnectKafkaFails ==
    /\ PublisherQuiet
    /\ producerPc = "connecting"
    /\ producerPc' = "timer"
    /\ listening' = TRUE
    /\ UNCHANGED <<kafkaReady, contentItems, calls>>
    /\ UNCHANGED <<consumerVars, exchangeVars, pubExchangeVars, brokerVars, pairVars>>
    /\ pubAttempts > 0
    /\ pubAttempts' = pubAttempts - 1
    /\ pubTimers' = pubTimers + 1
    /\ UNCHANGED <<consAttempts, consTimers>>
    /\ UNCHANGED procVars
    /\ UNCHANGED otherVars

RetryConnectKafkaEvery5s ==
    /\ PublisherQuiet
    /\ producerPc = "timer"
    /\ producerPc' = "connecting"
    /\ UNCHANGED <<kafkaReady, listening, contentItems, calls>>
    /\ UNCHANGED <<consumerVars, exchangeVars, pubExchangeVars, brokerVars, pairVars>>
    /\ pubTimers > 0
    /\ pubAttempts' = pubAttempts + 1
    /\ UNCHANGED pubTimers
    /\ UNCHANGED <<consAttempts, consTimers>>
    /\ UNCHANGED procVars
    /\ UNCHANGED otherVars

\* setTimeout(connectKafka, 5000) fires
RetryConnectKafka ==
    /\ PublisherQuiet
    /\ producerPc = "timer"
    /\ producerPc' = "connecting"
    /\ UNCHANGED <<kafkaReady, listening, contentItems, calls>>
    /\ UNCHANGED <<consumerVars, exchangeVars, pubExchangeVars, brokerVars, pairVars>>
    /\ pubTimers > 0
    /\ pubTimers' = pubTimers - 1
    /\ pubAttempts' = pubAttempts + 1
    /\ UNCHANGED <<consAttempts, consTimers>>
    /\ UNCHANGED procVars
    /\ UNCHANGED otherVars

\* the record of a call of trackEvent: what it was called with, kafkaReady at
\* the call, how many times its event was handed to producer.send, what
\* became of the event and how the promise of trackEvent settled
NewCall(t, ready, submits) ==
    [action |-> t.action, itemId |-> t.itemId, ready |-> ready,
     submitted |-> Len(submits),
     outcome |-> IF submits = <<>> THEN "dropped" ELSE "pending",
     promise |-> IF submits = <<>> THEN "fulfilled" ELSE "pending"]

\* content-service runs the handler of req; r is what the handler does
Handle(req, r) ==
    /\ contentItems' = r.items
    /\ pubRequest' = req
    /\ pubResponse' = r.response
    /\ calls' = IF r.tracked = <<>> THEN calls
                ELSE Append(calls, NewCall(r.tracked[1], kafkaReady, r.submits))
    /\ inflight' = inflight \o [i \in 1..Len(r.submits) |->
                                  [call |-> Len(calls) + 1, message |-> r.submits[i]]]
    /\ UNCHANGED <<kafkaReady, producerPc, listening, partitionLog>>

ContentRequest ==
    /\ PublisherQuiet
    /\ listening
    /\ Len(calls) < MaxCalls
    /\ \E req \in ContentRequests : Handle(req, HandleRequest(contentItems, kafkaReady, req))
    /\ UNCHANGED <<consumerVars, exchangeVars, pairVars>>
    /\ UNCHANGED lifeVars

\* the broker appends the record of the oldest producer.send and acknowledges it
BrokerAccepts ==
    /\ inflight # <<>>
    /\ LET h == Head(inflight)
       IN /\ partitionLog' = Append(partitionLog, h)
          /\ inflight' = Tail(inflight)
          /\ calls' = [calls EXCEPT ![h.call].outcome = "published",
                                    ![h.call].promise = SendSettled("resolved")]
    /\ UNCHANGED <<kafkaReady, producerPc, listening, contentItems>>
    /\ UNCHANGED <<consumerVars, exchangeVars, pubExchangeVars, pairVars>>
    /\ UNCHANGED lifeVars

\* the oldest producer.send rejects (the broker refuses it or cannot be reached)
BrokerRejects ==
    /\ inflight # <<>>
    /\ LET h == Head(inflight)
           again == ResendAfterFailure(h.message)
       IN /\ inflight' = Tail(inflight) \o [i \in 1..Len(again) |->
                                              [call |-> h.call, message |-> again[i]]]
          /\ calls' = [calls EXCEPT ![h.call].outcome = "failed",
                                    ![h.call].promise = SendSettled("rejected"),
                                    ![h.call].submitted = @ + Len(again)]
    /\ UNCHANGED <<kafkaReady, producerPc, listening, contentItems, partitionLog>>
    /\ UNCHANGED <<consumerVars, exchangeVars, pubExchangeVars, pairVars>>
    /\ UNCHANGED lifeVars

\* a record of another producer: the line of text verify-kafka.sh writes
ForeignRecord == [call |-> 0, message |-> [key |-> Null, value |-> NotJson]]

ForeignProduce ==
    /\ Len(SelectSeq(partitionLog, LAMBDA r : r.call = 0)) < MaxForeign
    /\ partitionLog' = Append(partitionLog, ForeignRecord)
    /\ UNCHANGED <<inflight, consumerVars, exchangeVars, publisherVars, pubExchangeVars,
                   pairVars>>
    /\ UNCHANGED lifeVars

\* the broker delivers the next record of the partition, in offset order
EachMessageFromTopic ==
    /\ ConsumerQuiet
    /\ consumerPc = "running"
    /\ Len(delivered) < Len(partitionLog)
    /\ Deliver(partitionLog[Len(delivered) + 1].message)
    /\ UNCHANGED <<exchangeVars, publisherVars, pubExchangeVars, brokerVars, pairVars>>
    /\ UNCHANGED lifeVars

NextPipe ==
    \/ ConnectKafkaOk
    \/ ConnectKafkaFails
    \/ RetryConnectKafka
    \/ ContentRequest
    \/ PubResponseSent
    \/ BrokerAccepts
    \/ BrokerRejects
    \/ ForeignProduce
    \/ StartConsumerFails
    \/ StartConsumerSubscribed
    \/ StartConsumerRuns
    \/ RetryConsumer
    \/ EachMessageFromTopic

SpecPipe == Init /\ [][NextPipe]_vars

\* The response of a handler is written in the turn that runs it; the broker
\* answers every producer.send; the fetch loop of a running consumer hands
\* every record of the partition to eachMessage.
SpecPipeFair ==
    /\ Init
    /\ [][NextPipe]_vars
    /\ WF_vars(PubResponseSent)
    /\ WF_vars(BrokerAccepts \/ BrokerRejects)
    /\ WF_vars(EachMessageFromTopic)

(***************************************************************************)
(* Two runs of content-service that get the same requests: the run of the  *)
(* variables above and a run B with its own producer connection.           *)
(***************************************************************************)
ConnectKafkaOkB ==
    /\ PublisherQuiet
    /\ producerPcB = "connecting"
    /\ kafkaReadyB' = TRUE
    /\ producerPcB' = "connected"
    /\ listeningB' = TRUE
    /\ UNCHANGED <<contentItemsB, pubResponseB>>
    /\ UNCHANGED <<consumerVars, exchangeVars, publisherVars, pubExchangeVars, brokerVars>>
    /\ UNCHANGED lifeVars

ConnectKafkaFailsB ==
    /\ PublisherQuiet
    /\ producerPcB = "connecting"
    /\ producerPcB' = "timer"
    /\ listeningB' = TRUE
    /\ UNCHANGED <<kafkaReadyB, contentItemsB, pubResponseB>>
    /\ UNCHANGED <<consumerVars, exchangeVars, publisherVars, pubExchangeVars, brokerVars>>
    /\ UNCHANGED lifeVars

RetryConnectKafkaB ==
    /\ PublisherQuiet
    /\ producerPcB = "timer"
    /\ producerPcB' = "connecting"
    /\ UNCHANGED <<kafkaReadyB, listeningB, contentItemsB, pubResponseB>>
    /\ UNCHANGED <<consumerVars, exchangeVars, publisherVars, pubExchangeVars, brokerVars>>
    /\ UNCHANGED lifeVars

\* both runs get the request req
PairRequest ==
    /\ PublisherQuiet
    /\ listening /\ listeningB
    /\ Len(calls) < MaxCalls
    /\ \E req \in ContentRequests :
        /\ Handle(req, HandleRequest(contentItems, kafkaReady, req))
        /\ LET rB == HandleRequest(contentItemsB, kafkaReadyB, req)
           IN /\ contentItemsB' = rB.items
              /\ pubResponseB' = rB.response
    /\ UNCHANGED <<kafkaReadyB, producerPcB, listeningB>>
    /\ UNCHANGED <<consumerVars, exchangeVars>>
    /\ UNCHANGED lifeVars

NextPair ==
    \/ ConnectKafkaOk
    \/ ConnectKafkaFails
    \/ RetryConnectKafka
    \/ ConnectKafkaOkB
    \/ ConnectKafkaFailsB
    \/ RetryConnectKafkaB
    \/ PairRequest
    \/ PubResponseSent
    \/ BrokerAccepts
    \/ BrokerRejects

SpecPair == Init /\ [][NextPair]_vars

(***************************************************************************)
(* The connections of both services to a broker that fails and recovers,   *)
(* and the shutdown of both processes.  An attempt to connect settles by   *)
(* the state of the broker at that moment: it resolves when the broker can *)
(* be reached and rejects when it cannot.                                  *)
(***************************************************************************)
BrokerFails ==
    /\ brokerUp
    /\ brokerUp' = FALSE
    /\ UNCHANGED <<consumerProc, publisherProc>>
    /\ UNCHANGED <<consumerVars, exchangeVars, publisherVars, pubExchangeVars, brokerVars,
                   pairVars>>
    /\ UNCHANGED loopVars
    /\ UNCHANGED otherVars

BrokerRecovers ==
    /\ ~brokerUp
    /\ brokerUp' = TRUE
    /\ UNCHANGED <<consumerProc, publisherProc>>
    /\ UNCHANGED <<consumerVars, exchangeVars, publisherVars, pubExchangeVars, brokerVars,
                   pairVars>>
    /\ UNCHANGED loopVars
    /\ UNCHANGED otherVars

\* process.exit has not been called
ConsumerAlive == consumerProc # "exited"
PublisherAlive == publisherProc # "exited"

ConsumerSubscribes == ConsumerAlive /\ brokerUp /\ StartConsumerSubscribed
ConsumerRuns == ConsumerAlive /\ brokerUp /\ StartConsumerRuns
ConsumerConnectFails == ConsumerAlive /\ ~brokerUp /\ StartConsumerFails
ConsumerRetries == ConsumerAlive /\ RetryConsumer

PublisherConnects == PublisherAlive /\ brokerUp /\ ConnectKafkaOk
PublisherConnectFails == PublisherAlive /\ ~brokerUp /\ ConnectKafkaFails
PublisherRetries == PublisherAlive /\ RetryConnectKafka

\* GET /health of content-service, once app.listen has been called
PublisherHealth ==
    /\ PublisherAlive
    /\ PublisherQuiet
    /\ listening
    /\ pubRequest' = [route |-> "GET /health"]
    /\ pubResponse' = PubGetHealth(kafkaReady)
    /\ UNCHANGED <<consumerVars, exchangeVars, publisherVars, brokerVars, pairVars>>
    /\ UNCHANGED lifeVars

PublisherResponds == PublisherAlive /\ PubResponseSent

\* SIGTERM or SIGINT: shutdown() logs and awaits consumer.disconnect()
ConsumerSignal ==
    /\ consumerProc = "up"
    /\ consumerProc' = "disconnecting"
    /\ UNCHANGED <<brokerUp, publisherProc>>
    /\ UNCHANGED <<consumerVars, exchangeVars, publisherVars, pubExchangeVars, brokerVars,
                   pairVars>>
    /\ UNCHANGED loopVars
    /\ UNCHANGED otherVars

\* consumer.disconnect() resolves, or rejects and the empty catch swallows
\* it: process.exit(0)
ConsumerDisconnectSettles ==
    /\ consumerProc = "disconnecting"
    /\ consumerProc' = "exited"
    /\ UNCHANGED <<brokerUp, publisherProc>>
    /\ UNCHANGED <<consumerVars, exchangeVars, publisherVars, pubExchangeVars, brokerVars,
                   pairVars>>
    /\ UNCHANGED loopVars
    /\ UNCHANGED otherVars

\* consumer.disconnect() never settles: the await of line 191 never returns
ConsumerDisconnectHangs ==
    /\ consumerProc = "disconnecting"
    /\ consumerProc' = "hung"
    /\ UNCHANGED <<brokerUp, publisherProc>>
    /\ UNCHANGED <<consumerVars, exchangeVars, publisherVars, pubExchangeVars, brokerVars,
                   pairVars>>
    /\ UNCHANGED loopVars
    /\ UNCHANGED otherVars

\* SIGTERM or SIGINT: shutdown() logs and awaits producer.disconnect()
PublisherSignal ==
    /\ publisherProc = "up"
    /\ publisherProc' = "disconnecting"
    /\ UNCHANGED <<brokerUp, consumerProc>>
    /\ UNCHANGED <<consumerVars, exchangeVars, publisherVars, pubExchangeVars, brokerVars,
                   pairVars>>
    /\ UNCHANGED loopVars
    /\ UNCHANGED otherVars

PublisherDisconnectSettles ==
    /\ publisherProc = "disconnecting"
    /\ publisherProc' = "exited"
    /\ UNCHANGED <<brokerUp, consumerProc>>
    /\ UNCHANGED <<consumerVars, exchangeVars, publisherVars, pubExchangeVars, brokerVars,
                   pairVars>>
    /\ UNCHANGED loopVars
    /\ UNCHANGED otherVars

PublisherDisconnectHangs ==
    /\ publisherProc = "disconnecting"
    /\ publisherProc' = "hung"
    /\ UNCHANGED <<brokerUp, consumerProc>>
    /\ UNCHANGED <<consumerVars, exchangeVars, publisherVars, pubExchangeVars, brokerVars,
                   pairVars>>
    /\ UNCHANGED loopVars
    /\ UNCHANGED otherVars

NextConn ==
    \/ BrokerFails
    \/ BrokerRecovers
    \/ ConsumerSubscribes
    \/ ConsumerRuns
    \/ ConsumerConnectFails
    \/ ConsumerRetries
    \/ PublisherConnects
    \/ PublisherConnectFails
    \/ PublisherRetries
    \/ PublisherHealth
    \/ PublisherResponds
    \/ ConsumerSignal
    \/ ConsumerDisconnectSettles
    \/ ConsumerDisconnectHangs
    \/ PublisherSignal
    \/ PublisherDisconnectSettles
    \/ PublisherDisconnectHangs

SpecConn == Init /\ [][NextConn]_vars

\* Every attempt to connect settles, every timer fires, every response is
\* sent, and a disconnect that does not hang settles.
SpecConnFair ==
    /\ Init
    /\ [][NextConn]_vars
    /\ WF_vars(ConsumerSubscribes \/ ConsumerRuns \/ ConsumerConnectFails)
    /\ WF_vars(ConsumerRetries)
    /\ WF_vars(PublisherConnects \/ PublisherConnectFails)
    /\ WF_vars(PublisherRetries)
    /\ WF_vars(PublisherResponds)
    /\ WF_vars(ConsumerDisconnectSettles)
    /\ WF_vars(PublisherDisconnectSettles)

(***************************************************************************)
(* The Consumer during an outage of the broker: its connect loop, the      *)
(* deliveries while the broker is up, and GET /health.  The timers, the    *)
(* settling of an attempt and the HTTP exchange are callbacks of one event *)
(* loop, which serves each of them in turn: none of them is starved by the *)
(* others.                                                                 *)
(***************************************************************************)
ConsumerDelivers == ConsumerAlive /\ brokerUp /\ EachMessage
ConsumerHealth == ConsumerAlive /\ HandleGetHealth
ConsumerResponds == ConsumerAlive /\ ResponseSent

NextOutage ==
    \/ BrokerFails
    \/ BrokerRecovers
    \/ ConsumerSubscribes
    \/ ConsumerRuns
    \/ ConsumerConnectFails
    \/ ConsumerRetries
    \/ ConsumerDelivers
    \/ ConsumerHealth
    \/ ConsumerResponds

SpecOutageFair ==
    /\ Init
    /\ [][NextOutage]_vars
    /\ SF_vars(ConsumerSubscribes \/ ConsumerRuns \/ ConsumerConnectFails)
    /\ SF_vars(ConsumerRetries)
    /\ WF_vars(ConsumerResponds)

(***************************************************************************)
(* The Publisher during an outage of the broker: its connect loop, the     *)
(* requests that call trackEvent, and the sends, which resolve when the    *)
(* broker is up at the moment they settle and reject when it is down.      *)
(***************************************************************************)
PublisherCall == PublisherAlive /\ ContentRequest
SendResolves == brokerUp /\ BrokerAccepts
SendRejects == ~brokerUp /\ BrokerRejects

NextRetry ==
    \/ BrokerFails
    \/ BrokerRecovers
    \/ PublisherConnects
    \/ PublisherConnectFails
    \/ PublisherRetries
    \/ PublisherCall
    \/ PublisherResponds
    \/ SendResolves
    \/ SendRejects

SpecRetryFair ==
    /\ Init
    /\ [][NextRetry]_vars
    /\ SF_vars(PublisherConnects \/ PublisherConnectFails)
    /\ SF_vars(PublisherRetries)
    /\ WF_vars(PublisherResponds)
    /\ WF_vars(SendResolves \/ SendRejects)

(***************************************************************************)
(* trackEvent called with any action, itemId and extra fields, as any code *)
(* of content-service may call it, and the sends it makes.                 *)
(***************************************************************************)
TrackActions == {"view", "create"}
TrackItemIds == {"C001", "C002", "", Undefined}
TrackExtras ==
    {<<>>,
     << <<"title", "Promo">>, <<"type", "image">> >>,
     << <<"source", "other-service">> >>,
     << <<"ts", "1970-01-01">> >>,
     << <<"itemId", "C999">> >>}

\* trackEvent(action, itemId, extra)
TrackEventCall ==
    /\ Len(calls) < MaxCalls
    /\ \E action \in TrackActions, itemId \in TrackItemIds, extra \in TrackExtras :
        \E submits \in {TrackEventSubmits(kafkaReady, action, itemId, extra)} :
            /\ calls' = Append(calls, NewCall(Tracked(action, itemId, extra), kafkaReady, submits))
            /\ inflight' = inflight \o [i \in 1..Len(submits) |->
                                          [call |-> Len(calls) + 1, message |-> submits[i]]]
    /\ UNCHANGED <<kafkaReady, producerPc, listening, contentItems, partitionLog>>
    /\ UNCHANGED <<consumerVars, exchangeVars, pubExchangeVars, pairVars>>
    /\ UNCHANGED lifeVars

NextTrack ==
    \/ ConnectKafkaOk
    \/ ConnectKafkaFails
    \/ RetryConnectKafka
    \/ TrackEventCall
    \/ BrokerAccepts
    \/ BrokerRejects

SpecTrack == Init /\ [][NextTrack]_vars

(***************************************************************************)
(* The Consumer with a broker that delivers records again: the group's     *)
(* offsets are committed by the client's auto-commit, so a record whose    *)
(* offset was not committed yet is handed to eachMessage a second time.    *)
(***************************************************************************)
\* eachMessage runs again for a record it has run for: same value, key, offset
Redeliver ==
    /\ ConsumerQuiet
    /\ consumerPc = "running"
    /\ Len(delivered) < MaxDelivered
    /\ \E k \in 1..Len(delivered) :
        \E message \in {delivered[k]} :
            /\ \E st \in {EachMessageHandler(ConsumerState, KAFKA_TOPIC, 0, message)} :
                /\ events' = st.events
                /\ messagesConsumed' = st.messagesConsumed
                /\ consumerConnected' = st.consumerConnected
            /\ delivered' = Append(delivered, message)
    /\ UNCHANGED consumerPc
    /\ UNCHANGED <<exchangeVars, publisherVars, pubExchangeVars, brokerVars, pairVars>>
    /\ UNCHANGED lifeVars

NextRedeliver ==
    \/ StartConsumerFails
    \/ StartConsumerSubscribed
    \/ StartConsumerRuns
    \/ RetryConsumer
    \/ EachMessage
    \/ Redeliver

SpecRedeliver == Init /\ [][NextRedeliver]_vars

(***************************************************************************)
(* auth-service as a state machine: it holds no state between requests.    *)
(***************************************************************************)
AuthRest ==
    UNCHANGED <<consumerVars, exchangeVars, publisherVars, pubExchangeVars, brokerVars,
                pairVars, procVars, loopVars, teardown, deploy>>

HandleValidate ==
    /\ authRequest = NoAuthRequest
    /\ \E req \in AuthRequests :
        /\ authRequest' = req
        /\ authResponse' = Validate(req)
    /\ AuthRest

AuthResponseSent ==
    /\ authRequest # NoAuthRequest
    /\ authRequest' = NoAuthRequest
    /\ authResponse' = NoResponse
    /\ AuthRest

NextAuth ==
    \/ HandleValidate
    \/ AuthResponseSent

SpecAuth == Init /\ [][NextAuth]_vars

(***************************************************************************)
(* A run of teardown.sh: the arguments and the validation, then            *)
(* teardown_env for each environment of the run, then the last lines.      *)
(***************************************************************************)
ScriptRest ==
    UNCHANGED <<consumerVars, exchangeVars, publisherVars, pubExchangeVars, brokerVars,
                pairVars, procVars, loopVars, authVars>>

Deleted(commands) ==
    {commands[i].ns : i \in {j \in 1..Len(commands) : commands[j].cmd = "kubectl delete namespace"}}

TeardownStart ==
    /\ teardown.pc = "idle"
    /\ \E cl \in TeardownCommandLines, cluster \in Clusters :
        LET v == TeardownParse(cl)
            valid == v.ALL_ENVS \/ v.TARGET_ENV # ""
        IN teardown' = [pc |-> IF valid THEN "running" ELSE "exit1",
                        cl |-> cl, v |-> v, cluster |-> cluster,
                        envs |-> IF ~valid THEN <<>>
                                 ELSE IF v.ALL_ENVS THEN <<"dev", "prod">>
                                 ELSE <<v.TARGET_ENV>>,
                        commands |-> <<>>]
    /\ UNCHANGED deploy
    /\ ScriptRest

TeardownEnv ==
    /\ teardown.pc = "running"
    /\ teardown.envs # <<>>
    /\ \E r \in {teardown_env(teardown.v, teardown.cluster, Head(teardown.envs))} :
        teardown' = [teardown EXCEPT
                        !.pc = IF r.aborted THEN "exit1" ELSE "running",
                        !.envs = Tail(@),
                        !.cluster.namespaces = @ \ Deleted(r.commands),
                        !.commands = @ \o r.commands]
    /\ UNCHANGED deploy
    /\ ScriptRest

TeardownComplete ==
    /\ teardown.pc = "running"
    /\ teardown.envs = <<>>
    /\ teardown' = [teardown EXCEPT !.pc = "exit0"]
    /\ UNCHANGED deploy
    /\ ScriptRest

NextTeardown ==
    \/ TeardownStart
    \/ TeardownEnv
    \/ TeardownComplete

SpecTeardown == Init /\ [][NextTeardown]_vars

(***************************************************************************)
(* A run of deploy.sh: the arguments, the validation and the namespace,    *)
(* then one component of the plan after another, then the last lines.      *)
(***************************************************************************)
DeployStart ==
    /\ deploy.pc = "idle"
    /\ \E cl \in DeployCommandLines, files \in DeployFiles :
        LET v == DeployParse(cl)
            valid == DeployValid(v, files)
        IN deploy' = [pc |-> IF valid THEN "running" ELSE "exit1",
                      cl |-> cl, v |-> v, files |-> files,
                      plan |-> IF valid THEN DeployPlan(v) ELSE <<>>,
                      skipped |-> <<>>, deployed |-> <<>>]
    /\ UNCHANGED teardown
    /\ ScriptRest

DeployComponent ==
    /\ deploy.pc = "running"
    /\ deploy.plan # <<>>
    /\ LET c == Head(deploy.plan)
           outcome == deploy_component(deploy.files, c)
       IN deploy' = [deploy EXCEPT
                        !.pc = AfterStatus(outcome),
                        !.plan = Tail(@),
                        !.skipped = IF outcome = "skipped" THEN Append(@, c) ELSE @,
                        !.deployed = IF outcome = "deployed" THEN Append(@, c) ELSE @]
    /\ UNCHANGED teardown
    /\ ScriptRest

DeployComplete ==
    /\ deploy.pc = "running"
    /\ deploy.plan = <<>>
    /\ deploy' = [deploy EXCEPT !.pc = "exit0"]
    /\ UNCHANGED teardown
    /\ ScriptRest

NextDeploy ==
    \/ DeployStart
    \/ DeployComponent
    \/ DeployComplete

SpecDeploy == Init /\ [][NextDeploy]_vars

(***************************************************************************)
(* Properties of the Consumer.                                             *)
(***************************************************************************)
Parses(m) == ~Throws(m)
ParsedDeliveries == SelectSeq(delivered, Parses)

\* C1: the events of the log are the deliveries that parsed, in the order of
\* delivery: the k-th event comes from the k-th delivery that parsed (same
\* offset and key), so an earlier delivery sits at a lower index of the log.
C1_LogInDeliveryOrder ==
    LET parsed == ParsedDeliveries
    IN /\ Len(events) = Len(parsed)
       /\ \A k \in 1..Len(events) :
           /\ events[k].kafka.offset = parsed[k].offset
           /\ events[k].kafka.key = parsed[k].key

C1_Witness ==
    /\ Len(events) >= 2
    /\ events[1].kafka.offset = "0"
    /\ events[2].kafka.offset = "2"

\* the id whose sequence number is k: E and k in five digits, zero-padded
SequenceId(k) ==
    "E" \o (IF k < 10 THEN "0000" ELSE IF k < 100 THEN "000" ELSE IF k < 1000 THEN "00"
            ELSE IF k < 10000 THEN "0" ELSE "") \o ToString(k)

\* C2: the k-th event of the log carries the id with sequence number k, so the
\* ids start at E00001 and increase by one along the log without gap or
\* duplicate, whatever was delivered.
C2_IdsFollowLogIndex ==
    \A k \in 1..Len(events) : events[k].id = SequenceId(k)

C2_Witness ==
    /\ Len(events) = 2
    /\ Len(delivered) = 3
    /\ events[2].id = "E00002"

\* C3: a delivery whose payload does not parse changes neither the log, nor
\* the messages-consumed counter, nor the connection state, and later valid
\* deliveries are still ingested: good, bad, good gives a log of the two good
\* events and a counter of 2.
C3_MalformedIsSkipped ==
    /\ [][(delivered' # delivered /\ Throws(Last(delivered')))
            => /\ events' = events
               /\ messagesConsumed' = messagesConsumed
               /\ consumerConnected' = consumerConnected
               /\ consumerPc' = consumerPc]_vars
    /\ [](/\ messagesConsumed = Len(ParsedDeliveries)
          /\ (/\ Len(delivered) = 3
              /\ Parses(delivered[1]) /\ Throws(delivered[2]) /\ Parses(delivered[3]))
             => /\ Len(events) = 2
                /\ messagesConsumed = 2
                /\ events[1].kafka.offset = delivered[1].offset
                /\ events[2].kafka.offset = delivered[3].offset)

C3_Witness ==
    /\ Len(delivered) = 3
    /\ Parses(delivered[1]) /\ Throws(delivered[2]) /\ Parses(delivered[3])
    /\ messagesConsumed = 2

\* the limit a request asks for: the integer whose decimal text it sends
AsksLimit(q, n) == HasParam(q, "limit") /\ q.limit = Decimal(n)
LimitRange == 0..(MaxLong + 2)

\* the last min(n, Len(seq)) elements of seq
LastN(seq, n) == SubSeq(seq, Len(seq) - Min(n, Len(seq)) + 1, Len(seq))

\* what the claim expects of GET /events for a limit of n: `given` tells which
\* filters of the query count as given
ExpectedEvents(q, n, given(_, _)) ==
    LET keep(e) == /\ given(q, "source") => e.source = q.source
                   /\ given(q, "action") => e.action = q.action
    IN LastN(SelectSeq(events, keep), n)

Present(q, name) == HasParam(q, name)
PresentNonEmpty(q, name) == HasParam(q, name) /\ q[name] # ""

EventsAnswer(given(_, _)) ==
    request.path = "/events" =>
        /\ response.body.total = Len(events)
        /\ response.body.returned = Len(response.body.events)
        /\ ~HasParam(request.query, "limit")
            => response.body.events = ExpectedEvents(request.query, 50, given)
        /\ \A n \in LimitRange \ {0} :
            AsksLimit(request.query, n)
                => response.body.events = ExpectedEvents(request.query, n, given)

\* C4 as stated: every filter that is present selects the events equal to it.
C4_EventsQueryAsStated == EventsAnswer(Present)

\* C4 as amended: a filter that is present with a non-empty value selects the
\* events equal to it, a filter that is absent or empty selects all; the
\* response holds the last min(limit, m) of the selected events in append
\* order (limit >= 1, 50 when omitted), total is the size of the log and
\* returned the number of events in the response.
C4_EventsQuery == EventsAnswer(PresentNonEmpty)

C4_Witness ==
    /\ request.path = "/events"
    /\ ~HasParam(request.query, "limit")
    /\ HasParam(request.query, "action") /\ request.query.action = "create"
    /\ response.body.total >= 52
    /\ response.body.returned = 26

\* C5: GET /events returns at most limit events for every limit >= 0, and at
\* most 50 when the limit is omitted.
C5_ReturnedAtMostLimit ==
    request.path = "/events" =>
        /\ ~HasParam(request.query, "limit") => response.body.returned <= 50
        /\ \A n \in LimitRange :
            AsksLimit(request.query, n) => response.body.returned <= n

\* the number of events of the log whose field is v
CountOf(field, v) == Cardinality({k \in 1..Len(events) : events[k][field] = v})

RECURSIVE SumOf(_, _)
SumOf(by, keys) ==
    IF keys = {} THEN 0
    ELSE LET k == CHOOSE x \in keys : TRUE IN by[k].n + SumOf(by, keys \ {k})

CountsRight(by, field) ==
    /\ DOMAIN by = {events[k][field] : k \in 1..Len(events)}
    /\ \A v \in DOMAIN by : by[v] = Num(CountOf(field, v))
    /\ SumOf(by, DOMAIN by) = Len(events)

\* C6: GET /stats counts the events of the log by source and by action: the
\* keys are the sources (actions) present, each count is the number of events
\* with that source (action), and both sums and totalEvents are the log size.
C6_StatsCountTheLog ==
    request.path = "/stats" =>
        /\ response.body.totalEvents = Len(events)
        /\ CountsRight(response.body.bySource, "source")
        /\ CountsRight(response.body.byAction, "action")

(***************************************************************************)
(* Properties of the Publisher and of the pipeline.                        *)
(***************************************************************************)
\* the number of records of call c on the partition, and waiting at the broker
TopicCount(c) == Len(SelectSeq(partitionLog, LAMBDA r : r.call = c))
InflightCount(c) == Len(SelectSeq(inflight, LAMBDA r : r.call = c))

\* the record an event of the log was made from: the one at its offset
RecordOf(e) ==
    partitionLog[CHOOSE p \in 1..Len(partitionLog) : ToString(p - 1) = e.kafka.offset]

\* the indices of the events of the log that come from call c
EventsOf(c) == {k \in 1..Len(events) : RecordOf(events[k]).call = c}

PublishedOnce ==
    \A c \in DOMAIN calls :
        /\ (calls[c].ready /\ calls[c].outcome = "pending")
            => InflightCount(c) = 1 /\ TopicCount(c) = 0
        /\ calls[c].outcome = "published" => InflightCount(c) = 0 /\ TopicCount(c) = 1
        /\ Cardinality(EventsOf(c)) <= 1
        /\ \A k \in EventsOf(c) :
            /\ events[k].source = SERVICE
            /\ events[k].action = calls[c].action
            /\ events[k].itemId = calls[c].itemId

\* C7: a call of trackEvent made while kafkaReady puts one message at the
\* broker; once the broker has accepted it the topic holds exactly one record
\* of the call, and a running consumer eventually logs exactly one event of
\* it, with the source of the service and the action and itemId of the call.
C7_PublishedExactlyOnce ==
    /\ []PublishedOnce
    /\ \A c \in 1..MaxCalls :
        /\ (c \in DOMAIN calls /\ calls[c].ready)
            ~> (c \in DOMAIN calls /\ calls[c].outcome \in {"published", "failed"})
        /\ (c \in DOMAIN calls /\ calls[c].outcome = "published" /\ consumerPc = "running")
            ~> (Cardinality(EventsOf(c)) = 1)

C7_Witness ==
    \E c, d \in DOMAIN calls :
        /\ c < d
        /\ calls[c].ready /\ calls[d].ready
        /\ Cardinality(EventsOf(c)) = 1
        /\ Cardinality(EventsOf(d)) = 1
        /\ TopicCount(0) = 1

SubmittedAtMostOnce ==
    /\ \A c \in DOMAIN calls :
        /\ calls[c].submitted <= 1
        /\ InflightCount(c) + TopicCount(c) <= 1
        /\ ~calls[c].ready
            => calls[c].submitted = 0 /\ InflightCount(c) = 0 /\ TopicCount(c) = 0
        /\ calls[c].outcome = "failed" => InflightCount(c) = 0 /\ TopicCount(c) = 0
    /\ \A k \in 1..Len(events) :
        LET c == RecordOf(events[k]).call
        IN c \in DOMAIN calls /\ calls[c].ready /\ calls[c].outcome = "published"

\* C8: the event of a call of trackEvent is handed to producer.send at most
\* once, at the call: never when kafkaReady was false at the call (also not
\* after the connection is made), never again after the send failed, and no
\* dropped event is in the consumer's log.
C8_NoBufferNoRetry ==
    /\ []SubmittedAtMostOnce
    /\ [][\A c \in DOMAIN calls :
            /\ c \in DOMAIN calls'
            /\ calls'[c].submitted = calls[c].submitted
            /\ calls'[c].ready = calls[c].ready]_vars

C8_Witness ==
    /\ kafkaReady
    /\ \E c, d \in DOMAIN calls :
        /\ c < d
        /\ ~calls[c].ready
        /\ calls[d].outcome = "published"
    /\ Len(events) = 1
    /\ inflight = <<>>

NeverRaises ==
    \A c \in DOMAIN calls :
        /\ calls[c].promise # "rejected"
        /\ ~calls[c].ready => calls[c].promise = "fulfilled" /\ calls[c].outcome = "dropped"
        /\ calls[c].outcome \in {"failed", "published"} => calls[c].promise = "fulfilled"

\* C9: the promise of trackEvent is never rejected, whatever kafkaReady is and
\* however producer.send settles; a send that fails changes nothing but the
\* fate of that event.
C9_TrackEventNeverRaises ==
    /\ []NeverRaises
    /\ [][(\E c \in DOMAIN calls : calls[c].outcome = "pending" /\ calls'[c].outcome = "failed")
            => UNCHANGED <<kafkaReady, producerPc, listening, contentItems, partitionLog,
                           consumerVars, pubExchangeVars>>]_vars

C9_Witness ==
    \E c, d \in DOMAIN calls :
        /\ calls[c].outcome = "dropped"
        /\ calls[d].outcome = "failed"
        /\ calls[d].promise = "fulfilled"

\* C10: two runs of content-service that get the same requests answer each
\* with the same status and body and keep the same content store, whatever
\* kafkaReady is in each run and however the sends settle.
C10_ResponsesIgnoreBroker ==
    /\ pubResponse = pubResponseB
    /\ contentItems = contentItemsB

C10_Witness ==
    /\ kafkaReady /\ ~kafkaReadyB
    /\ pubRequest.route = "DELETE /items/:id"
    /\ pubResponse.status = 200
    /\ \E c, d \in DOMAIN calls : calls[c].outcome = "failed" /\ calls[d].outcome = "dropped"

(***************************************************************************)
(* Properties of the Consumer's HTTP surface and of its log.               *)
(***************************************************************************)
\* C15: the HTTP surface of analytics-service answers from the start and in
\* every state of the subscribe loop: GET /health can always be answered, it
\* answers 200 with status ok, and its kafka field is connected exactly when
\* consumerConnected is true and reconnecting otherwise.
C15_HealthAlwaysOk ==
    /\ ConsumerQuiet => ENABLED HandleGetHealth
    /\ request.path = "/health" =>
        /\ response.status = 200
        /\ response.body.status = "ok"
        /\ response.body.kafka \in {"connected", "reconnecting"}
        /\ response.body.kafka = "connected" <=> consumerConnected

C15_Witness ==
    /\ request.path = "/health"
    /\ consumerPc = "timer"
    /\ response.status = 200
    /\ response.body.kafka = "reconnecting"

\* C17: the Event Log is append-only: every step (a delivery, a malformed
\* delivery, a query, an aggregate, a connect failure, a retry) leaves the
\* log it found as a prefix of the log it leaves.
C17_LogAppendOnly ==
    [][/\ Len(events') >= Len(events)
       /\ SubSeq(events', 1, Len(events)) = events]_vars

C17_Witness ==
    /\ Len(events) >= 2
    /\ Len(delivered) > Len(events)
    /\ request.path = "/events"
    /\ response.body.returned = 1

\* C18: a read endpoint (GET /events, /stats, /kafka-status, /health, /)
\* leaves the log, the messages-consumed counter, the connection state and
\* the subscribe loop as they are and hands nothing to the broker: the step
\* that answers a request changes only the request and the response.
C18_ReadsChangeNothing ==
    [][(request = NoRequest /\ request' # NoRequest)
        => /\ request'.path \in {"/events", "/stats", "/kafka-status", "/health", "/"}
           /\ UNCHANGED <<consumerVars, brokerVars, publisherVars>>]_vars

C18_Witness ==
    /\ request.path = "/events"
    /\ HasParam(request.query, "limit")
    /\ response.body.returned = 2
    /\ response.body.total = 3
    /\ Len(events) = 3

(***************************************************************************)
(* The pipeline from a request of content-service to the answers of        *)
(* analytics-service.                                                      *)
(***************************************************************************)
\* content-service tracked the creation of C005 and then its deletion, the
\* broker accepted both sends and the consumer has read the whole partition
CreatedThenDeleted ==
    /\ Len(calls) = 2
    /\ calls[1].action = "create" /\ calls[1].itemId = "C005"
    /\ calls[2].action = "delete" /\ calls[2].itemId = "C005"
    /\ calls[1].outcome = "published" /\ calls[2].outcome = "published"
    /\ Len(delivered) = Len(partitionLog)

\* C20: after the creation of an item (it gets id C005) and its deletion,
\* both published and consumed, the log holds exactly the create event and
\* then the delete event; GET /events?action=delete returns exactly the
\* second event, and GET /stats reports bySource {content-service: 2} and
\* byAction {create: 1, delete: 1}.
C20_CreateDeleteScenario ==
    CreatedThenDeleted =>
        LET query == Serve(ConsumerState, [path |-> "/events",
                                           query |-> [action |-> "delete"]]).response
            stats == Serve(ConsumerState, [path |-> "/stats", query |-> <<>>]).response
        IN /\ Len(events) = 2
           /\ events[1].action = "create" /\ events[1].itemId = "C005"
           /\ events[2].action = "delete" /\ events[2].itemId = "C005"
           /\ events[1].source = SERVICE /\ events[2].source = SERVICE
           /\ query.body.events = <<events[2]>>
           /\ query.body.returned = 1 /\ query.body.total = 2
           /\ stats.body.totalEvents = 2
           /\ stats.body.bySource = (SERVICE :> Num(2))
           /\ stats.body.byAction = ("create" :> Num(1)) @@ ("delete" :> Num(1))

C20_Witness ==
    /\ CreatedThenDeleted
    /\ Len(partitionLog) = 3
    /\ Len(events) = 2
    /\ contentItems = InitialItems


(***************************************************************************)
(* Properties of the connections and of the shutdown.                      *)
(***************************************************************************)
\* The Connection State read off the flag and the position in the connect
\* loop: connected while the flag is set, connecting while an attempt is in
\* flight, reconnecting while the retry timer is pending.
PublisherConnState ==
    IF kafkaReady THEN "connected"
    ELSE IF producerPc = "connecting" THEN "connecting" ELSE "reconnecting"

ConsumerConnState ==
    IF consumerConnected THEN "connected"
    ELSE IF consumerPc = "connecting" THEN "connecting" ELSE "reconnecting"

\* C11: in the Publisher and in the Consumer the state becomes connected only
\* from connecting, no step sets a flag that is already set, a failure leads
\* to reconnecting, and reconnecting is left only for connecting.
C11_ConnectingNeverSkipped ==
    [][/\ (PublisherConnState' = "connected" /\ PublisherConnState # "connected")
            => PublisherConnState = "connecting"
       /\ (ConsumerConnState' = "connected" /\ ConsumerConnState # "connected")
            => ConsumerConnState = "connecting"
       /\ (producerPc' = "connected" /\ producerPc # "connected") => ~kafkaReady
       /\ (consumerPc' = "starting" /\ consumerPc # "starting") => ~consumerConnected
       /\ (producerPc = "connecting" /\ producerPc' \notin {"connecting", "connected"})
            => PublisherConnState' = "reconnecting"
       /\ (consumerPc \in {"connecting", "starting"} /\ consumerPc' = "timer")
            => ConsumerConnState' = "reconnecting"
       /\ (ConsumerConnState = "connected" /\ ConsumerConnState' # "connected")
            => ConsumerConnState' = "reconnecting"
       /\ (PublisherConnState = "reconnecting" /\ PublisherConnState' # "reconnecting")
            => PublisherConnState' = "connecting"
       /\ (ConsumerConnState = "reconnecting" /\ ConsumerConnState' # "reconnecting")
            => ConsumerConnState' = "connecting"]_vars

\* the Publisher has become connected and the Consumer, whose attempt failed,
\* is reconnecting although the broker is back
C11_Witness ==
    /\ PublisherConnState = "connected"
    /\ ConsumerConnState = "reconnecting"
    /\ consumerPc = "timer"
    /\ brokerUp

\* C12: when the broker fails under a running Publisher or Consumer that is
\* connected, the flag behind its health signal is cleared while the
\* connection is down, unless the broker comes back or the process is shut
\* down.
C12_FailureLeavesConnected ==
    /\ (kafkaReady /\ ~brokerUp /\ publisherProc = "up")
         ~> (~kafkaReady \/ brokerUp \/ publisherProc # "up")
    /\ (consumerConnected /\ ~brokerUp /\ consumerProc = "up")
         ~> (~consumerConnected \/ brokerUp \/ consumerProc # "up")

\* C16: content-service listens as soon as its first attempt to connect has
\* settled, whether it resolved or rejected, and that attempt does settle;
\* from then on GET /health can be answered and answers 200 with status ok,
\* with kafka: reconnecting for as long as no attempt has succeeded.
C16_ListensWithoutBroker ==
    /\ [][(producerPc = "connecting" /\ producerPc' # "connecting") => listening']_vars
    /\ [][listening => listening']_vars
    /\ [](~listening => (producerPc = "connecting" /\ ~kafkaReady))
    /\ []((listening /\ PublisherAlive /\ PublisherQuiet) => ENABLED PublisherHealth)
    /\ [](pubRequest = [route |-> "GET /health"] =>
            /\ pubResponse.status = 200
            /\ pubResponse.body.status = "ok"
            /\ pubResponse.body.kafka = IF kafkaReady THEN "connected" ELSE "reconnecting")
    /\ <>(listening \/ publisherProc = "exited")

\* the broker was down at the start: the first attempt failed, the server
\* listens and a health request is answered with kafka: reconnecting
C16_Witness ==
    /\ listening
    /\ ~kafkaReady
    /\ producerPc = "timer"
    /\ pubRequest = [route |-> "GET /health"]
    /\ pubResponse.status = 200
    /\ pubResponse.body.kafka = "reconnecting"

\* C19: after a termination signal the process of the Publisher and the
\* process of the Consumer always exit, whatever becomes of the disconnect.
C19_AlwaysTerminates ==
    /\ (consumerProc # "up") ~> (consumerProc = "exited")
    /\ (publisherProc # "up") ~> (publisherProc = "exited")

\* C13: with the broker down the Consumer's process stays up and GET /health
\* answers 200, status ok, kafka: reconnecting; a failed attempt clears the
\* flag and sets the retry timer, and every timer is followed by a new
\* attempt; an attempt that settles with the broker up sets the flag; if the
\* broker stays up from some time on, the Consumer ends up connected and
\* running, and every record delivered then that parses is appended to the
\* log.
C13_OutageThenResume ==
    /\ [](consumerProc = "up")
    /\ []((ConsumerQuiet /\ ~consumerConnected) => ENABLED ConsumerHealth)
    /\ []((request.path = "/health" /\ ~consumerConnected) =>
            /\ response.status = 200
            /\ response.body.status = "ok"
            /\ response.body.kafka = "reconnecting")
    /\ [][(consumerPc \in {"connecting", "starting"} /\ ~brokerUp /\ consumerPc' # consumerPc)
            => (consumerPc' = "timer" /\ ~consumerConnected')]_vars
    /\ [][(consumerPc = "connecting" /\ brokerUp /\ consumerPc' # consumerPc)
            => consumerConnected']_vars
    /\ (consumerPc = "timer") ~> (consumerPc = "connecting")
    /\ <>[]brokerUp => <>[](consumerConnected /\ consumerPc = "running")
    /\ [][(delivered' # delivered /\ Parses(Last(delivered')))
            => /\ Len(events') = Len(events) + 1
               /\ SubSeq(events', 1, Len(events)) = events
               /\ Last(events').kafka.offset = Last(delivered').offset]_vars

\* the broker is down, an attempt has failed and the retry timer is pending:
\* a health request is answered with kafka: reconnecting
C13_Witness ==
    /\ ~brokerUp
    /\ consumerPc = "timer"
    /\ request.path = "/health"
    /\ response.status = 200
    /\ response.body.kafka = "reconnecting"

\* C14: a failed attempt of the Publisher to connect leaves the process up
\* and sets the retry timer, and every timer is followed by a new attempt; if
\* the broker stays up from some time on the Publisher becomes connected and
\* stays so, and a call of trackEvent made while connected hands its event
\* to producer.send.
C14_RetriesUntilConnected ==
    /\ [](publisherProc = "up")
    /\ [][(producerPc = "connecting" /\ producerPc' # producerPc /\ ~kafkaReady')
            => producerPc' = "timer"]_vars
    /\ (producerPc = "timer") ~> (producerPc = "connecting")
    /\ <>[]brokerUp => <>[]kafkaReady
    /\ [][(Len(calls') > Len(calls) /\ kafkaReady)
            => /\ Last(calls').ready
               /\ Last(calls').submitted = 1
               /\ Len(inflight') = Len(inflight) + 1
               /\ Last(inflight').call = Len(calls')]_vars

\* the first attempt failed, a call made before the retry succeeded was
\* dropped, and a call made after it was accepted by the broker
C14_Witness ==
    /\ kafkaReady
    /\ \E c, d \in DOMAIN calls :
        /\ c < d
        /\ ~calls[c].ready
        /\ calls[d].ready
        /\ calls[d].outcome = "published"


(***************************************************************************)
(* Properties of trackEvent for every input.                               *)
(***************************************************************************)
\* the records of calls of trackEvent that are at the broker or on their way
Submitted == inflight \o SelectSeq(partitionLog, LAMBDA r : r.call # 0)

\* event[k] of the payload of a record
PayloadProp(r, k) == Prop(JSONParse(r.message.value), k)

C23_CounterEqualsLog ==
    /\ [](messagesConsumed = Len(events))
    /\ [][(delivered' # delivered /\ Parses(Last(delivered')))
            => (Len(events') = Len(events) + 1 /\ messagesConsumed' = messagesConsumed + 1)]_vars
    /\ [][(events' # events \/ messagesConsumed' # messagesConsumed)
            => (delivered' # delivered /\ Parses(Last(delivered')))]_vars
    /\ [](request.path = "/kafka-status" =>
            /\ response.body.kafka.messagesConsumed = response.body.kafka.eventsStored
            /\ response.body.kafka.eventsStored = Len(events))

\* three deliveries, one of them skipped: /kafka-status reports 2 and 2
C23_Witness ==
    /\ Len(delivered) = 3
    /\ request.path = "/kafka-status"
    /\ response.body.kafka.messagesConsumed = 2
    /\ response.body.kafka.eventsStored = 2

\* the ids of the items of the store
StoreIds == {contentItems[k].id : k \in 1..Len(contentItems)}

\* the request is one content-service must reject: POST /items without title
\* or without type, GET or DELETE of an id that is not in the store
MustReject(req) ==
    \/ req.route = "POST /items" /\ (Falsy(req.body.title) \/ Falsy(req.body.type))
    \/ req.route \in {"GET /items/:id", "DELETE /items/:id"} /\ req.id \notin StoreIds

\* C24: whatever kafkaReady is, content-service answers 400 to a POST /items
\* without title or type and 404 to a GET or DELETE of an unknown id, and to
\* no other request; the step that rejects leaves the store, the calls of
\* trackEvent and the sends as they were.
C24_ClientErrorsIgnoreBroker ==
    [][(pubRequest' # pubRequest /\ pubRequest' # NoPubRequest) =>
        /\ MustReject(pubRequest') <=> pubResponse'.status \in {400, 404}
        /\ MustReject(pubRequest') =>
            /\ pubResponse'.status = IF pubRequest'.route = "POST /items" THEN 400 ELSE 404
            /\ UNCHANGED <<contentItems, calls, inflight, partitionLog, kafkaReady>>]_vars

\* connected, with one event published: a POST without title is answered 400
C24_Witness ==
    /\ kafkaReady
    /\ pubRequest.route = "POST /items"
    /\ Falsy(pubRequest.body.title)
    /\ pubResponse.status = 400
    /\ Len(calls) = 1
    /\ calls[1].outcome = "published"

\* C25: no two items of the content store have the same id, and the item a
\* POST /items adds has an id no item of the store had.
C25_ItemIdsUnique ==
    /\ [](\A i, j \in 1..Len(contentItems) :
            i # j => contentItems[i].id # contentItems[j].id)
    /\ [][Len(contentItems') > Len(contentItems)
            => Last(contentItems').id \notin StoreIds]_vars

\* C26: the Publisher and the Consumer each have at most one attempt to
\* connect in flight or one retry timer pending, never both; a timer is set
\* only by an attempt that fails, which sets exactly one and ends with it, and
\* none is pending and no attempt is in flight once an attempt has succeeded.
C26_OneAttemptOrOneTimer ==
    /\ [](pubAttempts + pubTimers <= 1 /\ consAttempts + consTimers <= 1)
    /\ [](kafkaReady => (pubAttempts = 0 /\ pubTimers = 0))
    /\ [](consumerPc = "running" => (consAttempts = 0 /\ consTimers = 0))
    /\ [][pubTimers' > pubTimers =>
            /\ pubTimers' = pubTimers + 1
            /\ pubAttempts = 1 /\ pubAttempts' = 0
            /\ ~kafkaReady']_vars
    /\ [][consTimers' > consTimers =>
            /\ consTimers' = consTimers + 1
            /\ consAttempts = 1 /\ consAttempts' = 0
            /\ ~consumerConnected']_vars
    /\ [][(producerPc = "connecting" /\ producerPc' = "timer") => pubTimers' = pubTimers + 1]_vars
    /\ [][(consumerPc \in {"connecting", "starting"} /\ consumerPc' = "timer")
            => consTimers' = consTimers + 1]_vars

\* the Publisher's next attempt is in flight after a failed one while the
\* Consumer, whose attempt failed, waits for its retry timer
C26_Witness ==
    /\ pubAttempts = 1 /\ pubTimers = 0
    /\ listening /\ ~kafkaReady
    /\ consAttempts = 0 /\ consTimers = 1

\* C27: every delivery of a message that parses appends exactly one event,
\* with the next id, also when an event of the same topic, partition and
\* offset is in the log already: the log then holds two events with the
\* same provenance and different ids.
C27_NoDeduplication ==
    [][(delivered' # delivered /\ Parses(Last(delivered'))) =>
        /\ Len(events') = Len(events) + 1
        /\ SubSeq(events', 1, Len(events)) = events
        /\ Last(events').id = EventId(Len(events))
        /\ Last(events').kafka.offset = Last(delivered').offset
        /\ (\E k \in 1..Len(delivered) : delivered[k] = Last(delivered')) =>
            \E j \in 1..Len(events) :
                /\ events[j].kafka = Last(events').kafka
                /\ events[j].id # Last(events').id]_vars

\* a record was delivered twice: two events of offset 0 with different ids
C27_Witness ==
    \E j, k \in 1..Len(events) :
        /\ j < k
        /\ events[j].kafka = events[k].kafka
        /\ events[j].id # events[k].id


(***************************************************************************)
(* Properties of auth-service.                                             *)
(***************************************************************************)
\* the token of a request: the header without its "Bearer " prefix, trimmed
PrefixRemoved(req) ==
    LET h == IF req.hasAuthorization THEN req.authorization ELSE <<>>
    IN Join(Trim(IF h # <<>> /\ h[1] = Bearer THEN Tail(h) ELSE h))

\* C28: GET /validate answers 200 with valid: true exactly when the token
\* of the request is the id of a user, and then returns the record of that
\* user; every other request gets 401 with valid: false.
C28_ValidIffUserId ==
    authRequest # NoAuthRequest =>
        LET token == PrefixRemoved(authRequest)
        IN IF token \in DOMAIN USERS
           THEN /\ authResponse.status = 200
                /\ authResponse.body.valid
                /\ authResponse.body.user = [t |-> "user", user |-> USERS[token]]
           ELSE /\ authResponse.status = 401
                /\ ~authResponse.body.valid


(***************************************************************************)
(* Properties of the deployment scripts.                                   *)
(***************************************************************************)
TeardownRan == teardown.pc # "idle"
DeletesNamespace == TeardownRan /\ Deleted(teardown.commands) # {}

\* C29: teardown.sh runs a namespace deletion only when --confirm is given and
\* none of --dry-run, --service and --kafka is given; without --confirm, with
\* --dry-run, with --service and with --kafka no namespace deletion is run.
C29_NamespaceOnlyConfirmedFull ==
    DeletesNamespace =>
        /\ teardown.cl.confirm
        /\ ~teardown.cl.dryRun
        /\ ~teardown.cl.service.given
        /\ ~teardown.cl.kafka

DeployRan == deploy.pc # "idle"
DeployEnded == DeployRan /\ deploy.pc \in {"exit0", "exit1"}
WithFile(c) == c \in deploy.files.values

\* C30: a run of deploy.sh --all that passed the validation and in which no
\* helm command fails skips the components without a values file and deploys
\* every other component, Kafka first and the services in the order of
\* ALL_SERVICES.
C30_AllSkipsAndContinues ==
    (/\ DeployEnded
     /\ deploy.v.DEPLOY_ALL
     /\ DeployValid(deploy.v, deploy.files)
     /\ deploy.files.failing = {})
    => deploy.deployed = SelectSeq(Components, WithFile)


====
